---- MODULE Spec2Model ----
\* WhatsApp ingestion core of crmprov2: the QR-bridge message handler
\* (server/services/message-handler.ts) and the cloud webhook
\* (server/whatsapp/webhook.ts), over the tables they read and write.
EXTENDS Integers, Sequences, FiniteSets, TLC

VARIABLES
    leads,              \* table leads, in insertion order (row id = index)
    conversations,      \* table conversations
    chatMessages,       \* table chat_messages (the message ledger)
    campaignRecipients, \* table campaign_recipients
    campaigns,          \* table campaigns
    pipelines,          \* table pipelines
    pipelineStages,     \* table pipeline_stages
    log,                \* the last line a handler wrote to the console
    now,                \* the wall clock read by new Date()
    inFlight,           \* the handler invocations suspended at an await
    response,           \* the HTTP status the webhook sent last
    dispatched          \* the integration events handed to the dispatcher

vars == <<leads, conversations, chatMessages, campaignRecipients, campaigns,
          pipelines, pipelineStages, log, now, inFlight, response, dispatched>>

--------------------------------------------------------------------------
\* Bounds of the model.

MaxTime == 2        \* the clock runs over 1..MaxTime
MaxMessages == 3    \* rows the ledger may hold
MaxUnread == 2      \* largest unreadCount followed
MaxCounter == 2     \* largest campaign counter followed
MaxStatuses == 2    \* status events in one webhook change
MaxBatch == 1       \* inbound messages in one webhook change

\* SQL NULL / JS null or undefined, for a timestamp and for a row reference.
NullTime == 0
NullId == 0
\* JS undefined or "" for a string.
NoString == ""

\* Provider message ids (message.key.id, m.id, st.id).
MsgIds == {"wamid.A", "wamid.B"}

--------------------------------------------------------------------------
\* Inputs of the QR bridge.

\* message.key.remoteJid, as the part before '@' and the part after it.
NoJid == [user |-> NoString, server |-> NoString]
StatusBroadcastJid == [user |-> "status", server |-> "broadcast"]
ContactJids == {[user |-> "111", server |-> "s.whatsapp.net"]}
Jids == ContactJids \cup {StatusBroadcastJid}

\* The number the QR session belongs to (userId).
QrUserId == 1

\* message.message: the field that is set, and its text or caption.
QrBodies == {[kind |-> "conversation", text |-> "hi"]}

QrMessages ==
    [id : MsgIds, remoteJid : Jids, fromMe : BOOLEAN, pushName : {NoString},
     messageTimestamp : {1}, body : QrBodies]

UpsertTypes == {"append", "notify"}

--------------------------------------------------------------------------
\* Helpers over tables.

\* The database handle: the tables the handlers thread through their steps.
Db == [leads |-> leads, conversations |-> conversations,
       chatMessages |-> chatMessages,
       campaignRecipients |-> campaignRecipients, campaigns |-> campaigns,
       pipelines |-> pipelines, pipelineStages |-> pipelineStages,
       log |-> log, dispatched |-> dispatched]

\* A console line: its fixed text and the value it interpolates.
LogLine(line, arg) == [line |-> line, arg |-> arg]
SkippingDuplicate == "[MessageHandler] Skipping duplicate message"
SavedMsg == "[MessageHandler] Saved msg"
MessageSavedToDb == "[Webhook] Message saved to DB (Conversation)"
ProcessingStatusUpdates == "[Webhook] Processing status updates"

\* .limit(1): the first of the rows a select matches.
FirstOf(S) == CHOOSE i \in S : \A j \in S : i <= j

--------------------------------------------------------------------------
\* MessageHandler.handleIncomingMessage

\* The filter that lets linked ids through.
IsFilteredJidNoLid(jid) ==
    \/ jid = NoJid
    \/ (jid.user = "status" /\ jid.server = "broadcast")

\* !jid || jid.includes('status@broadcast') || jid.includes('@lid')
IsFilteredJid(jid) ==
    \/ jid = NoJid
    \/ (jid.user = "status" /\ jid.server = "broadcast")
    \/ jid.server = "lid"

\* The check looking at the other connection kind.
ExistingMessageWrongKind(db, id) ==
    {i \in DOMAIN db.chatMessages :
        /\ db.chatMessages[i].whatsappMessageId = id
        /\ db.chatMessages[i].whatsappConnectionType = "api"}

\* The check keyed on the provider id alone.
ExistingMessageAnyKind(db, id) ==
    {i \in DOMAIN db.chatMessages : db.chatMessages[i].whatsappMessageId = id}

\* The idempotency check: a ledger row with this provider id on the qr kind.
ExistingMessage(db, id) ==
    {i \in DOMAIN db.chatMessages :
        /\ db.chatMessages[i].whatsappMessageId = id
        /\ db.chatMessages[i].whatsappConnectionType = "qr"}

\* The text of the message, with the per-type placeholders.
TextOf(body) ==
    IF body.text # NoString /\ body.kind \in {"conversation", "extendedTextMessage",
                                               "imageMessage", "videoMessage"}
    THEN body.text
    ELSE CASE body.kind = "imageMessage" -> "Image"
           [] body.kind = "videoMessage" -> "Video"
           [] body.kind = "audioMessage" -> "Audio"
           [] body.kind = "documentMessage" -> "Document"
           [] body.kind = "stickerMessage" -> "Sticker"
           [] OTHER -> "Media/Unknown"

MsgTypeOf(body) ==
    CASE body.kind = "imageMessage" -> "image"
      [] body.kind = "videoMessage" -> "video"
      [] body.kind = "audioMessage" -> "audio"
      [] body.kind = "documentMessage" -> "document"
      [] body.kind = "stickerMessage" -> "sticker"
      [] OTHER -> "text"

\* '+' + jid.split('@')[0]
PhoneNumberOf(jid) == "+" \o jid.user

ContactNameOf(message) ==
    IF message.pushName # NoString THEN message.pushName ELSE "Unknown"

MessageTimestampOf(message, t) ==
    IF message.messageTimestamp # NullTime THEN message.messageTimestamp ELSE t

\* Tables pipelines and pipeline_stages (never written by the ingestion core):
\* one default pipeline whose stages are not in the order of their ids.
InitialPipelines == <<[id |-> 1, isDefault |-> TRUE]>>
InitialPipelineStages == <<[id |-> 1, pipelineId |-> 1, order |-> 2],
                           [id |-> 2, pipelineId |-> 1, order |-> 1]>>

\* The first stage, by explicit order, of the pipeline flagged default.
DefaultStageId(db) ==
    LET defaultPipeline == {i \in DOMAIN db.pipelines : db.pipelines[i].isDefault}
    IN  IF defaultPipeline = {} THEN NullId
        ELSE LET pid == db.pipelines[FirstOf(defaultPipeline)].id
                 stages == {i \in DOMAIN db.pipelineStages :
                               db.pipelineStages[i].pipelineId = pid}
             IN  IF stages = {} THEN NullId
                 ELSE db.pipelineStages[CHOOSE i \in stages :
                          \A j \in stages : db.pipelineStages[i].order
                                                 <= db.pipelineStages[j].order].id

\* The maximum taken over the leads of every stage.
MaxKanbanOrderAnyStage(db, stageId) ==
    IF db.leads = <<>> THEN 0
    ELSE db.leads[CHOOSE i \in DOMAIN db.leads :
             \A j \in DOMAIN db.leads :
                 db.leads[i].kanbanOrder >= db.leads[j].kanbanOrder].kanbanOrder

\* max(kanbanOrder) over the leads of a stage; SQL gives NULL for no rows (?? 0).
MaxKanbanOrder(db, stageId) ==
    LET rows == {i \in DOMAIN db.leads : db.leads[i].pipelineStageId = stageId}
    IN  IF rows = {} THEN 0
        ELSE db.leads[CHOOSE i \in rows :
                 \A j \in rows : db.leads[i].kanbanOrder >= db.leads[j].kanbanOrder].kanbanOrder

NextOrder(db, stageId) ==
    IF stageId = NullId THEN 0 ELSE MaxKanbanOrder(db, stageId) + 1

\* The lookup made on the name column.
ExistingLeadByName(db, phoneNumber) ==
    {i \in DOMAIN db.leads : db.leads[i].name = phoneNumber}

\* The leads with this phone number.
ExistingLead(db, phoneNumber) ==
    {i \in DOMAIN db.leads : db.leads[i].phone = phoneNumber}

\* The row of a lead created from an inbound message.
NewLead(db, message, stageId, nextOrder, t) ==
    LET phoneNumber == PhoneNumberOf(message.remoteJid)
        contactName == ContactNameOf(message)
    IN  [id |-> Len(db.leads) + 1,
         name |-> IF contactName # "Unknown" THEN contactName ELSE phoneNumber,
         phone |-> phoneNumber,
         pipelineStageId |-> stageId,
         kanbanOrder |-> nextOrder,
         source |-> "whatsapp_inbound",
         lastContactedAt |-> MessageTimestampOf(message, t)]

\* The resolver bumping lastContactedAt whatever the kind of the event.
ResolveLeadAlwaysBump(db, message, upsertType, t) ==
    LET existingLead == ExistingLead(db, PhoneNumberOf(message.remoteJid))
    IN  IF existingLead # {}
        THEN [db |-> [db EXCEPT !.leads[FirstOf(existingLead)].lastContactedAt = t],
              leadId |-> FirstOf(existingLead)]
        ELSE LET stageId == DefaultStageId(db)
                 newLead == NewLead(db, message, stageId, NextOrder(db, stageId), t)
             IN  [db |-> [db EXCEPT !.leads = Append(@, newLead)],
                  leadId |-> newLead.id]

\* Find or create the lead: the database after it, and the lead's id.
ResolveLead(db, message, upsertType, t) ==
    LET existingLead == ExistingLead(db, PhoneNumberOf(message.remoteJid))
    IN  IF existingLead # {}
        THEN LET leadId == FirstOf(existingLead)
             IN  [db |-> IF upsertType = "notify"
                         THEN [db EXCEPT !.leads[leadId].lastContactedAt = t]
                         ELSE db,
                  leadId |-> leadId]
        ELSE LET stageId == DefaultStageId(db)
                 newLead == NewLead(db, message, stageId, NextOrder(db, stageId), t)
             IN  [db |-> [db EXCEPT !.leads = Append(@, newLead)],
                  leadId |-> newLead.id]

\* The merge that leaves the status of the conversation alone.
MergeConversationKeepsStatus(conv, message, upsertType, t) ==
    LET messageTimestamp == MessageTimestampOf(message, t)
    IN  IF upsertType = "notify" /\ ~message.fromMe
        THEN [conv EXCEPT !.unreadCount = @ + 1, !.lastMessageAt = t]
        ELSE IF conv.lastMessageAt = NullTime \/ messageTimestamp > conv.lastMessageAt
             THEN [conv EXCEPT !.lastMessageAt = messageTimestamp]
             ELSE conv

\* The merge that takes the timestamp of every replayed event.
MergeConversationLastWins(conv, message, upsertType, t) ==
    IF upsertType = "notify" /\ ~message.fromMe
    THEN [conv EXCEPT !.unreadCount = @ + 1,
                      !.lastMessageAt = t,
                      !.status = "active"]
    ELSE [conv EXCEPT !.lastMessageAt = MessageTimestampOf(message, t)]

\* The merge that counts the messages the user sent as unread.
MergeConversationCountsOwn(conv, message, upsertType, t) ==
    LET messageTimestamp == MessageTimestampOf(message, t)
    IN  IF upsertType = "notify"
        THEN [conv EXCEPT !.unreadCount = @ + 1,
                          !.lastMessageAt = t,
                          !.status = "active"]
        ELSE IF conv.lastMessageAt = NullTime \/ messageTimestamp > conv.lastMessageAt
             THEN [conv EXCEPT !.lastMessageAt = messageTimestamp]
             ELSE conv

\* The merge of an event into the conversation it belongs to.
MergeConversation(conv, message, upsertType, t) ==
    LET messageTimestamp == MessageTimestampOf(message, t)
    IN  IF upsertType = "notify" /\ ~message.fromMe
        THEN [conv EXCEPT !.unreadCount = @ + 1,
                          !.lastMessageAt = t,
                          !.status = "active"]
        ELSE IF conv.lastMessageAt = NullTime \/ messageTimestamp > conv.lastMessageAt
             THEN [conv EXCEPT !.lastMessageAt = messageTimestamp]
             ELSE conv

\* The lookup that passes over conversations with unread messages.
ExistingConvAllRead(db, leadId, userId, jid) ==
    {i \in DOMAIN db.conversations :
        /\ db.conversations[i].leadId = leadId
        /\ db.conversations[i].whatsappNumberId = userId
        /\ db.conversations[i].whatsappConnectionType = "qr"
        /\ db.conversations[i].externalChatId = jid
        /\ db.conversations[i].unreadCount = 0}

\* The QR conversations of a lead on a session and a chat.
ExistingConv(db, leadId, userId, jid) ==
    {i \in DOMAIN db.conversations :
        /\ db.conversations[i].leadId = leadId
        /\ db.conversations[i].whatsappNumberId = userId
        /\ db.conversations[i].channel = "whatsapp"
        /\ db.conversations[i].whatsappConnectionType = "qr"
        /\ db.conversations[i].externalChatId = jid}

\* The created conversation counting its first event as unread whatever it is.
NewConversationAlwaysUnread(db, leadId, userId, message, upsertType, t) ==
    [id |-> Len(db.conversations) + 1,
     channel |-> "whatsapp",
     whatsappNumberId |-> userId,
     whatsappConnectionType |-> "qr",
     externalChatId |-> message.remoteJid,
     leadId |-> leadId,
     contactPhone |-> PhoneNumberOf(message.remoteJid),
     contactName |-> ContactNameOf(message),
     unreadCount |-> 1,
     lastMessageAt |-> MessageTimestampOf(message, t),
     status |-> "active"]

\* The row of a conversation created by a QR event.
NewConversation(db, leadId, userId, message, upsertType, t) ==
    [id |-> Len(db.conversations) + 1,
     channel |-> "whatsapp",
     whatsappNumberId |-> userId,
     whatsappConnectionType |-> "qr",
     externalChatId |-> message.remoteJid,
     leadId |-> leadId,
     contactPhone |-> PhoneNumberOf(message.remoteJid),
     contactName |-> ContactNameOf(message),
     unreadCount |-> IF upsertType = "notify" /\ ~message.fromMe THEN 1 ELSE 0,
     lastMessageAt |-> MessageTimestampOf(message, t),
     status |-> "active"]

\* Find or create the conversation: the database after it, and its id.
ResolveConversation(db, leadId, userId, message, upsertType, t) ==
    LET existingConv == ExistingConv(db, leadId, userId, message.remoteJid)
    IN  IF existingConv # {}
        THEN LET conversationId == FirstOf(existingConv)
             IN  [db |-> [db EXCEPT !.conversations[conversationId] =
                             MergeConversation(@, message, upsertType, t)],
                  conversationId |-> conversationId]
        ELSE LET newConv == NewConversation(db, leadId, userId, message, upsertType, t)
             IN  [db |-> [db EXCEPT !.conversations = Append(@, newConv)],
                  conversationId |-> newConv.id]

\* The ledger row that takes every message as one that arrived.
QrChatMessageAsInbound(db, conversationId, userId, message, t) ==
    [id |-> Len(db.chatMessages) + 1,
     conversationId |-> conversationId,
     whatsappNumberId |-> userId,
     whatsappConnectionType |-> "qr",
     direction |-> "inbound",
     messageType |-> MsgTypeOf(message.body),
     content |-> TextOf(message.body),
     whatsappMessageId |-> message.id,
     status |-> "delivered",
     deliveredAt |-> MessageTimestampOf(message, t),
     sentAt |-> MessageTimestampOf(message, t),
     readAt |-> NullTime]

\* The ledger row of a QR message.
QrChatMessage(db, conversationId, userId, message, t) ==
    [id |-> Len(db.chatMessages) + 1,
     conversationId |-> conversationId,
     whatsappNumberId |-> userId,
     whatsappConnectionType |-> "qr",
     direction |-> IF message.fromMe THEN "outbound" ELSE "inbound",
     messageType |-> MsgTypeOf(message.body),
     content |-> TextOf(message.body),
     whatsappMessageId |-> message.id,
     status |-> IF message.fromMe THEN "sent" ELSE "delivered",
     deliveredAt |-> IF message.fromMe THEN NullTime ELSE MessageTimestampOf(message, t),
     sentAt |-> MessageTimestampOf(message, t),
     readAt |-> NullTime]

\* The handler with the idempotency check made after the lead was resolved.
HandleIncomingMessageLateCheck(db, userId, message, upsertType, t) ==
    IF IsFilteredJid(message.remoteJid) THEN db
    ELSE LET lead == ResolveLead(db, message, upsertType, t)
             conv == ResolveConversation(lead.db, lead.leadId, userId, message,
                                         upsertType, t)
         IN  IF ExistingMessage(db, message.id) # {}
             THEN [lead.db EXCEPT !.log = LogLine(SkippingDuplicate, message.id)]
             ELSE [conv.db EXCEPT
                     !.chatMessages =
                         Append(@, QrChatMessage(conv.db, conv.conversationId, userId,
                                                 message, t)),
                     !.log = LogLine(SavedMsg, message.id)]

\* The whole handler: the database it leaves behind.
HandleIncomingMessage(db, userId, message, upsertType, t) ==
    IF IsFilteredJid(message.remoteJid) THEN db
    ELSE IF ExistingMessage(db, message.id) # {}
    THEN [db EXCEPT !.log = LogLine(SkippingDuplicate, message.id)]
    ELSE LET lead == ResolveLead(db, message, upsertType, t)
             conv == ResolveConversation(lead.db, lead.leadId, userId, message,
                                         upsertType, t)
         IN  [conv.db EXCEPT
                 !.chatMessages =
                     Append(@, QrChatMessage(conv.db, conv.conversationId, userId,
                                             message, t)),
                 !.log = LogLine(SavedMsg, message.id)]

--------------------------------------------------------------------------
\* Inputs of the cloud webhook.

Statuses == {"sent", "delivered", "read", "failed"}

\* One entry of value.statuses.
StatusEvents == [id : MsgIds, status : Statuses]

\* value.metadata.phone_number_id, and the table whatsapp_connections.
KnownPhoneNumberId == "PN1"
PhoneNumberIds == {KnownPhoneNumberId, "PN9", NoString}
whatsappConnections == <<[phoneNumberId |-> KnownPhoneNumberId, whatsappNumberId |-> 1]>>

\* wa_id / from of the cloud API.
CloudPhones == {"111", "222"}

\* One entry of value.messages.
CloudMessages == [id : MsgIds, from : CloudPhones, type : {"text"}, body : {"hi"}]

\* All sequences over S of length lo..hi.
SeqsOf(S, lo, hi) == UNION {[1..n -> S] : n \in lo..hi}

\* The status events of one change speak of one message.
StatusBatches ==
    {sts \in SeqsOf(StatusEvents, 1, MaxStatuses) :
        \A i \in DOMAIN sts : sts[i].id = sts[1].id}

\* One change of a payload: value.metadata, value.statuses, value.messages and
\* value.contacts[0] (wa_id and profile.name).
StatusChanges ==
    [phoneNumberId : {KnownPhoneNumberId}, statuses : StatusBatches,
     messages : {<<>>}, waId : {NoString}, profileName : {NoString}]

MessageChanges ==
    [phoneNumberId : {KnownPhoneNumberId}, statuses : {<<>>},
     messages : SeqsOf(CloudMessages, 1, MaxBatch),
     waId : CloudPhones \cup {NoString}, profileName : {NoString}]

UnroutedChanges ==
    [phoneNumberId : PhoneNumberIds \ {KnownPhoneNumberId},
     statuses : {<<[id |-> "wamid.A", status |-> "read"]>>},
     messages : {<<[id |-> "wamid.B", from |-> "111", type |-> "text", body |-> "hi"]>>},
     waId : {NoString}, profileName : {NoString}]

\* A payload, as the changes of its entries in order.
MessagePayloads == {<<c>> : c \in MessageChanges \cup UnroutedChanges}
StatusPayloads == {<<c>> : c \in StatusChanges}

--------------------------------------------------------------------------
\* registerWhatsAppWebhookRoutes: POST /api/whatsapp/webhook

GetWhatsappNumberIdByPhoneNumberId(phoneNumberId) ==
    LET rows == {i \in DOMAIN whatsappConnections :
                    whatsappConnections[i].phoneNumberId = phoneNumberId}
    IN  IF rows = {} THEN NullId ELSE whatsappConnections[FirstOf(rows)].whatsappNumberId

\* The patch of a read receipt stamping the delivery as well.
PatchMessageStampsDelivery(row, status, t) ==
    CASE status = "sent" -> [row EXCEPT !.status = "sent", !.sentAt = t]
      [] status = "delivered" -> [row EXCEPT !.status = "delivered", !.deliveredAt = t]
      [] status = "read" -> [row EXCEPT !.status = "read", !.readAt = t, !.deliveredAt = t]
      [] status = "failed" -> [row EXCEPT !.status = "failed"]
      [] OTHER -> row

\* The patch a status event makes to a ledger row.
PatchMessage(row, status, t) ==
    CASE status = "sent" -> [row EXCEPT !.status = "sent", !.sentAt = t]
      [] status = "delivered" -> [row EXCEPT !.status = "delivered", !.deliveredAt = t]
      [] status = "read" -> [row EXCEPT !.status = "read", !.readAt = t]
      [] status = "failed" -> [row EXCEPT !.status = "failed"]
      [] OTHER -> row

\* update chat_messages set patch where whatsappMessageId = msgId
UpdateChatMessages(db, msgId, status, t) ==
    [db EXCEPT !.chatMessages =
        [i \in DOMAIN @ |-> IF @[i].whatsappMessageId = msgId
                            THEN PatchMessage(@[i], status, t) ELSE @[i]]]

\* The rollup without the back-fill of messagesDelivered on a direct read.
CampaignRollupNoBackfill(db, rec, status) ==
    LET current == db.campaignRecipients[rec].status
        campaignId == db.campaignRecipients[rec].campaignId
    IN  CASE status = "delivered" ->
               IF current # "delivered" /\ current # "read"
               THEN [db EXCEPT !.campaignRecipients[rec].status = "delivered",
                               !.campaigns[campaignId].messagesDelivered = @ + 1]
               ELSE db
          [] status = "read" ->
               IF current # "read"
               THEN [db EXCEPT !.campaignRecipients[rec].status = "read",
                               !.campaigns[campaignId].messagesRead = @ + 1]
               ELSE db
          [] status = "failed" ->
               IF current # "failed"
               THEN [db EXCEPT !.campaignRecipients[rec].status = "failed",
                               !.campaigns[campaignId].messagesFailed = @ + 1]
               ELSE db
          [] status = "sent" ->
               IF current = "pending"
               THEN [db EXCEPT !.campaignRecipients[rec].status = "sent"]
               ELSE db
          [] OTHER -> db

\* The rollup with sent guarded like the other statuses (current # "sent").
CampaignRollupSentUnguarded(db, rec, status) ==
    LET current == db.campaignRecipients[rec].status
        campaignId == db.campaignRecipients[rec].campaignId
    IN  CASE status = "delivered" ->
               IF current # "delivered" /\ current # "read"
               THEN [db EXCEPT !.campaignRecipients[rec].status = "delivered",
                               !.campaigns[campaignId].messagesDelivered = @ + 1]
               ELSE db
          [] status = "read" ->
               IF current # "read"
               THEN [db EXCEPT !.campaignRecipients[rec].status = "read",
                               !.campaigns[campaignId].messagesDelivered =
                                   IF current # "delivered" THEN @ + 1 ELSE @,
                               !.campaigns[campaignId].messagesRead = @ + 1]
               ELSE db
          [] status = "failed" ->
               IF current # "failed"
               THEN [db EXCEPT !.campaignRecipients[rec].status = "failed",
                               !.campaigns[campaignId].messagesFailed = @ + 1]
               ELSE db
          [] status = "sent" ->
               IF current # "sent"
               THEN [db EXCEPT !.campaignRecipients[rec].status = "sent"]
               ELSE db
          [] OTHER -> db

\* The campaign rollup of one status event for the recipient row rec.
CampaignRollup(db, rec, status) ==
    LET current == db.campaignRecipients[rec].status
        campaignId == db.campaignRecipients[rec].campaignId
    IN  CASE status = "delivered" ->
               IF current # "delivered" /\ current # "read"
               THEN [db EXCEPT !.campaignRecipients[rec].status = "delivered",
                               !.campaigns[campaignId].messagesDelivered = @ + 1]
               ELSE db
          [] status = "read" ->
               IF current # "read"
               THEN [db EXCEPT !.campaignRecipients[rec].status = "read",
                               !.campaigns[campaignId].messagesDelivered =
                                   IF current # "delivered" THEN @ + 1 ELSE @,
                               !.campaigns[campaignId].messagesRead = @ + 1]
               ELSE db
          [] status = "failed" ->
               IF current # "failed"
               THEN [db EXCEPT !.campaignRecipients[rec].status = "failed",
                               !.campaigns[campaignId].messagesFailed = @ + 1]
               ELSE db
          [] status = "sent" ->
               IF current = "pending"
               THEN [db EXCEPT !.campaignRecipients[rec].status = "sent"]
               ELSE db
          [] OTHER -> db

\* One status event: the ledger patch, then the campaign rollup.
ApplyStatus(db, st, t) ==
    IF st.id = NoString THEN db
    ELSE LET patched == UpdateChatMessages(db, st.id, st.status, t)
             rec == {i \in DOMAIN patched.campaignRecipients :
                        patched.campaignRecipients[i].whatsappMessageId = st.id}
         IN  IF rec = {} THEN patched
             ELSE CampaignRollup(patched, FirstOf(rec), st.status)

RECURSIVE ApplyStatuses(_, _, _)
ApplyStatuses(db, statuses, t) ==
    IF statuses = <<>> THEN db
    ELSE ApplyStatuses(ApplyStatus(db, Head(statuses), t), Tail(statuses), t)

\* The status updates of one change.
ProcessStatuses(db, statuses, t) ==
    IF statuses = <<>> THEN db
    ELSE ApplyStatuses([db EXCEPT !.log = LogLine(ProcessingStatusUpdates,
                                                   ToString(Len(statuses)))],
                       statuses, t)

\* The normalisation of one cloud message: its ledger type and content.
CloudMessageTypeOf(m) ==
    CASE m.type \in {"text"} -> "text"
      [] m.type \in {"image", "video", "audio", "document", "sticker"} -> m.type
      [] m.type = "location" -> "location"
      [] m.type = "contacts" -> "contact"
      [] OTHER -> "text"

CloudContentOf(m) ==
    CASE m.type \in {"text", "image", "video", "audio", "document", "sticker",
                     "location"} -> m.body
      [] m.type = "contacts" -> "[" \o m.body \o "]"
      [] OTHER -> "{id:" \o m.id \o ",from:" \o m.from \o ",type:" \o m.type \o "}"

\* The ledger row of a cloud message (sentAt and readAt are not set).
CloudChatMessage(db, conversationId, whatsappNumberId, m, t) ==
    [id |-> Len(db.chatMessages) + 1,
     conversationId |-> conversationId,
     whatsappNumberId |-> whatsappNumberId,
     whatsappConnectionType |-> "api",
     direction |-> "inbound",
     messageType |-> CloudMessageTypeOf(m),
     content |-> CloudContentOf(m),
     whatsappMessageId |-> m.id,
     status |-> "delivered",
     deliveredAt |-> t,
     sentAt |-> NullTime,
     readAt |-> NullTime]

\* void dispatchIntegrationEvent({event: "message_received", ...}): the call
\* returns at once with a promise nobody holds; what is kept of the event is
\* the row it speaks of and how the dispatch has ended so far.
MessageReceived(conversationId, m) ==
    [event |-> "message_received", conversationId |-> conversationId,
     whatsappMessageId |-> m.id, outcome |-> "pending"]

\* The message loop waiting for each dispatch, and the first one rejecting:
\* the messages after it are not reached.
InsertMessagesAwaitingDispatch(db, conversationId, whatsappNumberId, messages, t) ==
    IF messages = <<>> THEN db
    ELSE [db EXCEPT
             !.chatMessages =
                 Append(@, CloudChatMessage(db, conversationId, whatsappNumberId,
                                            Head(messages), t)),
             !.log = LogLine("[Webhook] Critical Error:", NoString),
             !.dispatched =
                 Append(@, [MessageReceived(conversationId, Head(messages))
                                EXCEPT !.outcome = "rejected"])]

RECURSIVE InsertMessages(_, _, _, _, _)
InsertMessages(db, conversationId, whatsappNumberId, messages, t) ==
    IF messages = <<>> THEN db
    ELSE InsertMessages(
             [db EXCEPT
                 !.chatMessages =
                     Append(@, CloudChatMessage(db, conversationId, whatsappNumberId,
                                                Head(messages), t)),
                 !.log = LogLine(MessageSavedToDb, ToString(conversationId)),
                 !.dispatched =
                     Append(@, MessageReceived(conversationId, Head(messages)))],
             conversationId, whatsappNumberId, Tail(messages), t)

\* Find or create the conversation of a change, once for the change.
ResolveCloudConversation(db, whatsappNumberId, contactPhone, contactName, t) ==
    LET convo == {i \in DOMAIN db.conversations :
                     /\ db.conversations[i].whatsappNumberId = whatsappNumberId
                     /\ db.conversations[i].contactPhone = contactPhone}
    IN  IF convo = {}
        THEN LET newConv == [id |-> Len(db.conversations) + 1,
                             channel |-> "whatsapp",
                             whatsappNumberId |-> whatsappNumberId,
                             whatsappConnectionType |-> "api",
                             externalChatId |-> NoJid,
                             leadId |-> NullId,
                             contactPhone |-> contactPhone,
                             contactName |-> contactName,
                             unreadCount |-> 1,
                             lastMessageAt |-> t,
                             status |-> "active"]
             IN  [db |-> [db EXCEPT !.conversations = Append(@, newConv)],
                  conversationId |-> newConv.id]
        ELSE LET conversationId == FirstOf(convo)
             IN  [db |-> [db EXCEPT
                             !.conversations[conversationId].contactName =
                                 IF contactName # NoString THEN contactName ELSE @,
                             !.conversations[conversationId].lastMessageAt = t,
                             !.conversations[conversationId].unreadCount = @ + 1],
                  conversationId |-> conversationId]

\* The incoming messages of one change.
ProcessMessages(db, whatsappNumberId, change, t) ==
    LET contactPhone == IF change.waId # NoString THEN change.waId
                        ELSE change.messages[1].from
    IN  IF change.messages = <<>> THEN db
        ELSE IF contactPhone = NoString THEN db
        ELSE LET conv == ResolveCloudConversation(db, whatsappNumberId, contactPhone,
                                                  change.profileName, t)
             IN  InsertMessages(conv.db, conv.conversationId, whatsappNumberId,
                                change.messages, t)

\* One change with its messages taken before its statuses.
ProcessChangeMessagesFirst(db, change, t) ==
    IF change.phoneNumberId = NoString
    THEN [db EXCEPT !.log = LogLine("[Webhook] No phone_number_id found in change", NoString)]
    ELSE LET whatsappNumberId == GetWhatsappNumberIdByPhoneNumberId(change.phoneNumberId)
         IN  IF whatsappNumberId = NullId
             THEN [db EXCEPT !.log = LogLine("[Webhook] No connected number found for Phone ID",
                                             change.phoneNumberId)]
             ELSE ProcessStatuses(ProcessMessages(db, whatsappNumberId, change, t),
                                  change.statuses, t)

\* One change: routing, then its statuses, then its messages.
ProcessChange(db, change, t) ==
    IF change.phoneNumberId = NoString
    THEN [db EXCEPT !.log = LogLine("[Webhook] No phone_number_id found in change", NoString)]
    ELSE LET whatsappNumberId == GetWhatsappNumberIdByPhoneNumberId(change.phoneNumberId)
         IN  IF whatsappNumberId = NullId
             THEN [db EXCEPT !.log = LogLine("[Webhook] No connected number found for Phone ID",
                                             change.phoneNumberId)]
             ELSE ProcessMessages(ProcessStatuses(db, change.statuses, t),
                                  whatsappNumberId, change, t)

\* The loop over the changes leaving at the first change it cannot route.
RECURSIVE ProcessChangesUntilUnrouted(_, _, _)
ProcessChangesUntilUnrouted(db, changes, t) ==
    IF changes = <<>> THEN db
    ELSE IF \/ Head(changes).phoneNumberId = NoString
            \/ GetWhatsappNumberIdByPhoneNumberId(Head(changes).phoneNumberId) = NullId
    THEN ProcessChange(db, Head(changes), t)
    ELSE ProcessChangesUntilUnrouted(ProcessChange(db, Head(changes), t), Tail(changes), t)

\* The messages of a payload, over all its changes.
RECURSIVE MessagesIn(_)
MessagesIn(payload) ==
    IF payload = <<>> THEN 0 ELSE Len(Head(payload).messages) + MessagesIn(Tail(payload))

\* The entry and change loops: every change in order.
RECURSIVE ProcessChanges(_, _, _)
ProcessChanges(db, changes, t) ==
    IF changes = <<>> THEN db
    ELSE ProcessChanges(ProcessChange(db, Head(changes), t), Tail(changes), t)

\* A change whose message loop reaches an insert into chatMessages.
ReachesInsert(change) ==
    /\ change.phoneNumberId # NoString
    /\ GetWhatsappNumberIdByPhoneNumberId(change.phoneNumberId) # NullId
    /\ change.messages # <<>>
    /\ (change.waId # NoString \/ change.messages[1].from # NoString)

\* The handler answering 500 from its catch.
PostInsertThrowsUncaught(db, payload, t, c, m) ==
    [db |-> [db EXCEPT !.log = LogLine("[Webhook] Critical Error:", NoString)],
     response |-> 500]

\* The POST handler when the insert of message m of change c rejects: the
\* rejection leaves both loops for the catch, which logs and answers 200.
PostInsertThrows(db, payload, t, c, m) ==
    LET before == ProcessChanges(db, SubSeq(payload, 1, c - 1), t)
        conv == ResolveCloudConversation(
                    ProcessStatuses(before, payload[c].statuses, t),
                    GetWhatsappNumberIdByPhoneNumberId(payload[c].phoneNumberId),
                    IF payload[c].waId # NoString THEN payload[c].waId
                    ELSE payload[c].messages[1].from,
                    payload[c].profileName, t)
        thrown == InsertMessages(conv.db, conv.conversationId,
                                 GetWhatsappNumberIdByPhoneNumberId(payload[c].phoneNumberId),
                                 SubSeq(payload[c].messages, 1, m - 1), t)
    IN  [db |-> [thrown EXCEPT !.log = LogLine("[Webhook] Critical Error:", NoString)],
         response |-> 200]

--------------------------------------------------------------------------
\* verifySignature, and the POST handler from the request on.

\* The characters of a hex string, and the digit a character stands for.
HexChars == {"0", "1", "2", "a", "b", "c", "A", "B", "C"}
HexValue(c) ==
    CASE c = "A" -> "a" [] c = "B" -> "b" [] c = "C" -> "c" [] OTHER -> c

\* Buffer.from(text, "hex"): one byte per pair of hex characters, up to the
\* first pair that is not one; a single trailing character is left out.
RECURSIVE HexDecode(_)
HexDecode(text) ==
    IF Len(text) < 2 THEN <<>>
    ELSE IF text[1] \in HexChars /\ text[2] \in HexChars
    THEN <<(<<HexValue(text[1]), HexValue(text[2])>>)>> \o HexDecode(SubSeq(text, 3, Len(text)))
    ELSE <<>>

\* crypto.createHmac("sha256", secret).update(raw).digest("hex"): lower-case
\* hex of a fixed length, different for different keys and bodies.
AppSecret == "s3cret"
HmacHex(secret, raw) ==
    CASE secret = AppSecret /\ raw = "rawA" -> <<"a", "1", "b", "2">>
      [] secret = AppSecret /\ raw = "rawB" -> <<"c", "0", "1", "a">>
      [] OTHER -> <<"0", "2", "c", "b">>

\* crypto.timingSafeEqual: throws on buffers of different lengths.
TimingSafeEqual(a, b) ==
    IF Len(a) # Len(b) THEN "throws" ELSE IF a = b THEN "true" ELSE "false"

\* The request header x-hub-signature-256 is scheme followed by signature.
VerifySignature(secret, req) ==
    IF secret = NoString THEN TRUE
    ELSE IF req.scheme # "sha256=" THEN FALSE
    ELSE IF req.rawBody = NoString THEN FALSE
    ELSE TimingSafeEqual(HexDecode(req.signature),
                         HexDecode(HmacHex(secret, req.rawBody))) = "true"

\* The handler: 401 when the signature fails, else the changes of the body,
\* and 200 also from the catch around it all.
HandleWebhookPost(db, secret, req, t) ==
    IF ~VerifySignature(secret, req)
    THEN [db |-> [db EXCEPT !.log = LogLine("[Webhook] Signature verification failed!",
                                            NoString)],
          response |-> 401]
    ELSE [db |-> ProcessChanges([db EXCEPT !.log = LogLine("[Webhook] Payload:", NoString)],
                                req.payload, t),
          response |-> 200]

--------------------------------------------------------------------------
\* The state machine.

\* What a campaign send leaves behind: an api conversation, the outbound ledger
\* row, and the recipient row linked to it by the provider message id.
CampaignMessageId == "wamid.A"

InitialConversations ==
    <<[id |-> 1, channel |-> "whatsapp", whatsappNumberId |-> 1,
       whatsappConnectionType |-> "api", externalChatId |-> NoJid, leadId |-> NullId,
       contactPhone |-> "111", contactName |-> NoString, unreadCount |-> 0,
       lastMessageAt |-> 1, status |-> "active"]>>

InitialChatMessages ==
    <<[id |-> 1, conversationId |-> 1, whatsappNumberId |-> 1,
       whatsappConnectionType |-> "api", direction |-> "outbound",
       messageType |-> "text", content |-> "promo",
       whatsappMessageId |-> CampaignMessageId, status |-> "sent",
       deliveredAt |-> NullTime, sentAt |-> 1, readAt |-> NullTime]>>

InitialRecipients(s) ==
    <<[id |-> 1, campaignId |-> 1, whatsappMessageId |-> CampaignMessageId,
       status |-> s]>>

InitialCampaigns ==
    <<[id |-> 1, messagesDelivered |-> 0, messagesRead |-> 0, messagesFailed |-> 0]>>

\* No request was answered yet.
NoResponse == 0

\* The invocations that may be in flight at once, and one not yet made.
Invocations == {1, 2}
Idle == [pc |-> "idle"]
NoneInFlight == [p \in Invocations |-> Idle]

Init ==
    /\ leads = <<>>
    /\ conversations = InitialConversations
    /\ chatMessages = InitialChatMessages
    /\ campaignRecipients = InitialRecipients("sent")
    /\ campaigns = InitialCampaigns
    /\ pipelines = InitialPipelines
    /\ pipelineStages = InitialPipelineStages
    /\ log = LogLine(NoString, NoString)
    /\ now = 1
    /\ inFlight = NoneInFlight
    /\ response = NoResponse
    /\ dispatched = <<>>

\* The part of the state space the model follows.
WithinBounds(db) ==
    /\ Len(db.chatMessages) <= MaxMessages
    /\ \A i \in DOMAIN db.conversations : db.conversations[i].unreadCount <= MaxUnread
    /\ \A i \in DOMAIN db.campaigns :
          /\ db.campaigns[i].messagesDelivered <= MaxCounter
          /\ db.campaigns[i].messagesRead <= MaxCounter
          /\ db.campaigns[i].messagesFailed <= MaxCounter

Store(db) ==
    /\ WithinBounds(db)
    /\ leads' = db.leads
    /\ conversations' = db.conversations
    /\ chatMessages' = db.chatMessages
    /\ campaignRecipients' = db.campaignRecipients
    /\ campaigns' = db.campaigns
    /\ log' = db.log
    /\ dispatched' = db.dispatched
    /\ UNCHANGED <<pipelines, pipelineStages>>

\* The QR bridge hands one message to the handler.
QrUpsert(message, upsertType) ==
    /\ Store(HandleIncomingMessage(Db, QrUserId, message, upsertType, now))
    /\ UNCHANGED <<now, inFlight, response>>

\* The provider posts one payload to the webhook.
WebhookPost(payload) ==
    /\ Store(ProcessChanges(Db, payload, now))
    /\ response' = 200
    /\ UNCHANGED <<now, inFlight>>

\* A cloud payload arrives and the insert of message m of its change c rejects.
WebhookPostInsertThrows(payload, c, m) ==
    LET out == PostInsertThrows(Db, payload, now, c, m)
    IN  /\ c \in DOMAIN payload
        /\ ReachesInsert(payload[c])
        /\ m \in DOMAIN payload[c].messages
        /\ Store(out.db)
        /\ response' = out.response
        /\ UNCHANGED <<now, inFlight>>

\* A dispatch that was pending ends: it delivered the event, or it failed and
\* the dispatcher logged the failure. One that never ends stays pending.
DispatchSettles(e, outcome) ==
    /\ e \in DOMAIN dispatched
    /\ dispatched[e].outcome = "pending"
    /\ dispatched' = [dispatched EXCEPT ![e].outcome = outcome]
    /\ log' = IF outcome = "rejected"
              THEN LogLine("[Integration] Dispatch failed", dispatched[e].whatsappMessageId)
              ELSE log
    /\ UNCHANGED <<leads, conversations, chatMessages, campaignRecipients, campaigns,
                   pipelines, pipelineStages, now, inFlight, response>>

\* Time passes.
Tick ==
    /\ now < MaxTime
    /\ now' = now + 1
    /\ UNCHANGED <<leads, conversations, chatMessages, campaignRecipients, campaigns,
                   pipelines, pipelineStages, log, inFlight, response, dispatched>>

\* Ingestion: both transports deliver content messages.
Next ==
    \/ \E message \in QrMessages, upsertType \in UpsertTypes : QrUpsert(message, upsertType)
    \/ \E payload \in MessagePayloads : WebhookPost(payload)
    \/ Tick

Spec == Init /\ [][Next]_vars

\* Status reconciliation: the provider reports on messages already ledgered.
NextStatus ==
    \/ \E payload \in StatusPayloads : WebhookPost(payload)
    \/ Tick

\* The recipient of the campaign message is still pending, or already sent.
InitStatus ==
    /\ leads = <<>>
    /\ conversations = InitialConversations
    /\ chatMessages = InitialChatMessages
    /\ campaignRecipients \in {InitialRecipients(s) : s \in {"pending", "sent"}}
    /\ campaigns = InitialCampaigns
    /\ pipelines = InitialPipelines
    /\ pipelineStages = InitialPipelineStages
    /\ log = LogLine(NoString, NoString)
    /\ now = 1
    /\ inFlight = NoneInFlight
    /\ response = NoResponse
    /\ dispatched = <<>>

SpecStatus == InitStatus /\ [][NextStatus]_vars

--------------------------------------------------------------------------
\* Lead resolution: QR messages of two contacts, with and without a display
\* name, under each configuration of the default pipeline.

LeadJids == {[user |-> u, server |-> "s.whatsapp.net"] : u \in {"111", "222"}}

LeadMessages ==
    [id : MsgIds, remoteJid : LeadJids, fromMe : {FALSE},
     pushName : {NoString, "Ana", "Unknown"}, messageTimestamp : {1}, body : QrBodies]

\* A default pipeline with stages, no pipeline flagged default, and a default
\* pipeline without stages.
PipelineConfigs ==
    {[pipelines |-> InitialPipelines, pipelineStages |-> InitialPipelineStages],
     [pipelines |-> <<[id |-> 1, isDefault |-> FALSE]>>,
      pipelineStages |-> InitialPipelineStages],
     [pipelines |-> InitialPipelines, pipelineStages |-> <<>>]}

\* A lead entered by hand, placed in the second stage of the pipeline.
InitialLeads ==
    <<[id |-> 1, name |-> "Zoe", phone |-> "+999", pipelineStageId |-> 1,
       kanbanOrder |-> 3, source |-> "manual", lastContactedAt |-> NullTime]>>

InitLeads ==
    /\ leads = InitialLeads
    /\ conversations = <<>>
    /\ chatMessages = <<>>
    /\ campaignRecipients = <<>>
    /\ campaigns = <<>>
    /\ \E config \in PipelineConfigs :
          /\ pipelines = config.pipelines
          /\ pipelineStages = config.pipelineStages
    /\ log = LogLine(NoString, NoString)
    /\ now = 1
    /\ inFlight = NoneInFlight
    /\ response = NoResponse
    /\ dispatched = <<>>

NextLeads ==
    \/ \E message \in LeadMessages, upsertType \in UpsertTypes :
           QrUpsert(message, upsertType)
    \/ Tick

SpecLeads == InitLeads /\ [][NextLeads]_vars

--------------------------------------------------------------------------
\* The merge rules: QR events, stamped before and after one another, on two
\* conversations that exist already: one archived, one never written to.

MergeMessages ==
    [id : MsgIds, remoteJid : LeadJids, fromMe : BOOLEAN, pushName : {NoString},
     messageTimestamp : {1, 2}, body : QrBodies]

MergeLeads ==
    <<[id |-> 1, name |-> "+111", phone |-> "+111", pipelineStageId |-> 2,
       kanbanOrder |-> 1, source |-> "whatsapp_inbound", lastContactedAt |-> 1],
      [id |-> 2, name |-> "+222", phone |-> "+222", pipelineStageId |-> 2,
       kanbanOrder |-> 2, source |-> "whatsapp_inbound", lastContactedAt |-> NullTime]>>

MergeConversations ==
    <<[id |-> 1, channel |-> "whatsapp", whatsappNumberId |-> QrUserId,
       whatsappConnectionType |-> "qr",
       externalChatId |-> [user |-> "111", server |-> "s.whatsapp.net"],
       leadId |-> 1, contactPhone |-> "+111", contactName |-> "Unknown",
       unreadCount |-> 0, lastMessageAt |-> 1, status |-> "archived"],
      [id |-> 2, channel |-> "whatsapp", whatsappNumberId |-> QrUserId,
       whatsappConnectionType |-> "qr",
       externalChatId |-> [user |-> "222", server |-> "s.whatsapp.net"],
       leadId |-> 2, contactPhone |-> "+222", contactName |-> "Unknown",
       unreadCount |-> 0, lastMessageAt |-> NullTime, status |-> "active"]>>

InitMerge ==
    /\ leads = MergeLeads
    /\ conversations = MergeConversations
    /\ chatMessages = <<>>
    /\ campaignRecipients = <<>>
    /\ campaigns = <<>>
    /\ pipelines = InitialPipelines
    /\ pipelineStages = InitialPipelineStages
    /\ log = LogLine(NoString, NoString)
    /\ now = 1
    /\ inFlight = NoneInFlight
    /\ response = NoResponse
    /\ dispatched = <<>>

\* The events the handler drops: no jid, a status broadcast, a linked id.
FilteredJids == {NoJid, StatusBroadcastJid, [user |-> "111", server |-> "lid"]}

FilteredMessages ==
    [id : MsgIds, remoteJid : FilteredJids, fromMe : {FALSE}, pushName : {NoString},
     messageTimestamp : {1}, body : QrBodies]

NextMerge ==
    \/ \E message \in MergeMessages, upsertType \in UpsertTypes :
           QrUpsert(message, upsertType)
    \/ \E message \in FilteredMessages, upsertType \in UpsertTypes :
           QrUpsert(message, upsertType)
    \/ Tick

SpecMerge == InitMerge /\ [][NextMerge]_vars

--------------------------------------------------------------------------
\* The cloud path on conversations that exist already: changes of one and of
\* two messages, payloads of two changes one of which cannot be routed, next
\* to a QR session of the same number.

\* The senders: a bare number, and the number as the QR path writes it.
BatchSenders == {"111", "+111"}

BatchMessages == [id : MsgIds, from : BatchSenders, type : {"text"}, body : {"hi"}]

BatchChanges ==
    [phoneNumberId : {KnownPhoneNumberId}, statuses : {<<>>},
     messages : UNION {[1..n -> BatchMessages] : n \in {1, 2}},
     waId : {NoString}, profileName : {NoString}]

\* Payloads of two changes: one routed, one not, in both orders.
MixedPayloads ==
    LET routed == {c \in BatchChanges : Len(c.messages) = 1}
    IN  {<<u, c>> : u \in UnroutedChanges, c \in routed}
            \cup {<<c, u>> : u \in UnroutedChanges, c \in routed}

BatchPayloads == {<<c>> : c \in BatchChanges} \cup MixedPayloads

\* The QR messages of the contact whose number the cloud path also serves.
BatchQrMessages ==
    [id : MsgIds, remoteJid : ContactJids, fromMe : {FALSE}, pushName : {NoString},
     messageTimestamp : {1}, body : QrBodies]

\* An archived cloud conversation of the contact, and the QR conversation of
\* the same contact on the same number.
BatchConversations ==
    <<[id |-> 1, channel |-> "whatsapp", whatsappNumberId |-> 1,
       whatsappConnectionType |-> "api", externalChatId |-> NoJid, leadId |-> NullId,
       contactPhone |-> "111", contactName |-> NoString,
       unreadCount |-> 0, lastMessageAt |-> 1, status |-> "archived"],
      [id |-> 2, channel |-> "whatsapp", whatsappNumberId |-> QrUserId,
       whatsappConnectionType |-> "qr",
       externalChatId |-> [user |-> "111", server |-> "s.whatsapp.net"],
       leadId |-> 1, contactPhone |-> "+111", contactName |-> "Unknown",
       unreadCount |-> 0, lastMessageAt |-> 1, status |-> "active"]>>

InitBatch ==
    /\ leads = <<MergeLeads[1]>>
    /\ conversations = BatchConversations
    /\ chatMessages = <<>>
    /\ campaignRecipients = <<>>
    /\ campaigns = <<>>
    /\ pipelines = InitialPipelines
    /\ pipelineStages = InitialPipelineStages
    /\ log = LogLine(NoString, NoString)
    /\ now = 1
    /\ inFlight = NoneInFlight
    /\ response = NoResponse
    /\ dispatched = <<>>

NextBatch ==
    \/ \E payload \in BatchPayloads : WebhookPost(payload)
    \/ \E message \in BatchQrMessages : QrUpsert(message, "notify")

SpecBatch == InitBatch /\ [][NextBatch]_vars

--------------------------------------------------------------------------
\* Normalisation: content messages of a type the handlers know and of one they
\* do not, on both transports, into an empty ledger.

\* A text and a reaction: message.message has the field of its kind only.
TypeBodies == {[kind |-> "conversation", text |-> "hi"],
               [kind |-> "reactionMessage", text |-> "ok"]}

TypeQrMessages ==
    [id : MsgIds, remoteJid : ContactJids, fromMe : BOOLEAN, pushName : {NoString},
     messageTimestamp : {1}, body : TypeBodies]

TypeCloudMessages == [id : MsgIds, from : {"111"}, type : {"text", "reaction"}, body : {"hi"}]

TypePayloads ==
    {<<[phoneNumberId |-> KnownPhoneNumberId, statuses |-> <<>>, messages |-> <<m>>,
        waId |-> NoString, profileName |-> NoString]>> : m \in TypeCloudMessages}

InitTypes ==
    /\ leads = <<>>
    /\ conversations = <<>>
    /\ chatMessages = <<>>
    /\ campaignRecipients = <<>>
    /\ campaigns = <<>>
    /\ pipelines = InitialPipelines
    /\ pipelineStages = InitialPipelineStages
    /\ log = LogLine(NoString, NoString)
    /\ now = 1
    /\ inFlight = NoneInFlight
    /\ response = NoResponse
    /\ dispatched = <<>>

NextTypes ==
    \/ \E message \in TypeQrMessages : QrUpsert(message, "notify")
    \/ \E payload \in TypePayloads : WebhookPost(payload)

SpecTypes == InitTypes /\ [][NextTypes]_vars

--------------------------------------------------------------------------
\* Signed requests: with and without a configured secret, a header that is
\* missing, of another scheme, or carries the digest, the digest in upper
\* case, the digest followed by other characters, a part of it, another digest.

\* The signatures a request may carry for the body whose digest is digest.
SignaturesFor(digest) ==
    {digest,
     <<"A", "1", "B", "2">>,
     digest \o <<"z">>,
     digest \o <<"z", "z">>,
     digest \o <<"0", "0">>,
     <<"z", "z">> \o digest,
     SubSeq(digest, 1, 2),
     <<"c", "0", "1", "a">>,
     <<>>}

\* A body with a status event and an inbound message.
SignedPayload ==
    <<[phoneNumberId |-> KnownPhoneNumberId,
       statuses |-> <<[id |-> CampaignMessageId, status |-> "delivered"]>>,
       messages |-> <<[id |-> "wamid.B", from |-> "222", type |-> "text", body |-> "hi"]>>,
       waId |-> NoString, profileName |-> NoString]>>

\* Requests carrying that body: of every signature, of every scheme, and of
\* every raw body.
HeaderRequests ==
    [scheme : {"sha256="},
     signature : SignaturesFor(HmacHex(AppSecret, "rawA")),
     rawBody : {"rawA"},
     payload : {SignedPayload}]
    \cup
    [scheme : {"sha256=", "sha1=", NoString},
     signature : {HmacHex(AppSecret, "rawA")},
     rawBody : {"rawA", "rawB", NoString},
     payload : {SignedPayload}]

\* Requests signed with the digest of their raw body, of every body.
BodyRequests ==
    [scheme : {"sha256="},
     signature : {HmacHex(AppSecret, "rawA")},
     rawBody : {"rawA"},
     payload : {<<c>> : c \in {mc \in MessageChanges :
                                     Len(mc.messages) = 1 /\ mc.waId = NoString}}
               \cup {<<c>> : c \in {sc \in StatusChanges :
                                     sc.statuses = <<[id |-> CampaignMessageId, status |-> "read"]>>}}
               \cup {<<>>}]

Requests == HeaderRequests \cup BodyRequests

\* A request arrives at POST /api/whatsapp/webhook.
WebhookRequest(secret, req) ==
    LET out == HandleWebhookPost(Db, secret, req, now)
    IN  /\ Store(out.db)
        /\ response' = out.response
        /\ UNCHANGED <<now, inFlight>>

NextVerify ==
    \E secret \in {NoString, AppSecret}, req \in Requests : WebhookRequest(secret, req)

SpecVerify == Init /\ [][NextVerify]_vars

--------------------------------------------------------------------------
\* Persistence that fails: cloud payloads of one or two changes, with status
\* events and one or two messages, any of whose inserts may reject.

FailMessages == [id : {"wamid.B", "wamid.C"}, from : {"222"}, type : {"text"}, body : {"hi"}]

FailChanges ==
    [phoneNumberId : {KnownPhoneNumberId},
     statuses : {<<>>, <<[id |-> CampaignMessageId, status |-> "delivered"]>>},
     messages : UNION {[1..n -> FailMessages] : n \in {1, 2}},
     waId : {NoString}, profileName : {NoString}]

FailPayloads ==
    {<<c>> : c \in FailChanges}
        \cup {<<c, d>> : c \in {x \in FailChanges : Len(x.messages) = 1 /\ x.statuses = <<>>},
                         d \in {x \in FailChanges : Len(x.messages) = 1}}

NextFail ==
    \/ \E payload \in FailPayloads : WebhookPost(payload)
    \/ \E payload \in FailPayloads, c \in {1, 2}, m \in {1, 2} :
          WebhookPostInsertThrows(payload, c, m)
    \/ Tick

SpecFail == Init /\ [][NextFail]_vars

--------------------------------------------------------------------------
\* Changes that carry status events, messages, both or neither; the status may
\* speak of the very id a message of the change brings, and the sender of a
\* message may be missing.

BothKindsMessages ==
    [id : MsgIds, from : {"222", NoString}, type : {"text"}, body : {"hi"}]

BothKindsChanges ==
    [phoneNumberId : {KnownPhoneNumberId},
     statuses : {<<>>} \cup {<<[id |-> i, status |-> st]>> : i \in MsgIds, st \in {"delivered", "read"}},
     messages : {<<>>} \cup {<<m>> : m \in BothKindsMessages},
     waId : {NoString}, profileName : {NoString}]

NextBothKinds ==
    \E change \in BothKindsChanges : WebhookPost(<<change>>)

SpecBothKinds == Init /\ [][NextBothKinds]_vars

--------------------------------------------------------------------------
\* The life of a ledger row: messages of both transports that bring an id,
\* and bring it again, and status events of every kind for that id.

LedgerStatusChanges ==
    [phoneNumberId : {KnownPhoneNumberId},
     statuses : {<<[id |-> "wamid.B", status |-> st]>> : st \in Statuses},
     messages : {<<>>}, waId : {NoString}, profileName : {NoString}]

LedgerMessageChanges ==
    [phoneNumberId : {KnownPhoneNumberId}, statuses : {<<>>},
     messages : {<<[id |-> "wamid.B", from |-> "111", type |-> "text", body |-> "hi"]>>},
     waId : {NoString}, profileName : {NoString}]

LedgerQrMessages ==
    [id : MsgIds, remoteJid : ContactJids, fromMe : {FALSE}, pushName : {NoString},
     messageTimestamp : {1}, body : QrBodies]

NextLedger ==
    \/ \E change \in LedgerStatusChanges \cup LedgerMessageChanges : WebhookPost(<<change>>)
    \/ \E message \in LedgerQrMessages : QrUpsert(message, "notify")
    \/ Tick

SpecLedger == Init /\ [][NextLedger]_vars


--------------------------------------------------------------------------
\* Dispatches that end while later payloads are handled: cloud payloads of
\* one or two messages, and every dispatch ending well, badly or not at all.

NextDispatch ==
    \/ \E payload \in FailPayloads : WebhookPost(payload)
    \/ \E e \in 1..MaxMessages, outcome \in {"fulfilled", "rejected"} : DispatchSettles(e, outcome)

SpecDispatch == Init /\ [][NextDispatch]_vars

--------------------------------------------------------------------------
\* The QR handler one await at a time: an invocation suspends at every query,
\* and the invocations in flight interleave there.  (The response of a webhook
\* request in flight is sent after its last step and is not followed here.)

\* The messages two racing invocations carry.
RaceMessages ==
    [id : MsgIds, remoteJid : ContactJids, fromMe : BOOLEAN, pushName : {NoString},
     messageTimestamp : {1}, body : QrBodies]

\* The locals of an invocation suspended at the query named by pc.
QrCall(pc, message, upsertType) ==
    [pc |-> pc, message |-> message, upsertType |-> upsertType,
     leadId |-> NullId, stageId |-> NullId, nextOrder |-> 0,
     existingConv |-> NullId, unreadCount |-> 0, lastMessageAt |-> NullTime,
     conversationId |-> NullId]

Suspend(p, call) == inFlight' = [inFlight EXCEPT ![p] = call]

Unchanged == UNCHANGED <<leads, conversations, chatMessages, campaignRecipients,
                         campaigns, pipelines, pipelineStages, log, dispatched>>

\* The bridge calls the handler; the jid filter runs before the first query.
QrCallStart(p, message, upsertType) ==
    /\ inFlight[p].pc = "idle"
    /\ Suspend(p, QrCall(IF IsFilteredJid(message.remoteJid) THEN "done"
                         ELSE "selectExisting", message, upsertType))
    /\ Unchanged /\ UNCHANGED <<now, response>>

\* The idempotency query returns.
QrSelectExisting(p) ==
    LET call == inFlight[p]
    IN  /\ call.pc = "selectExisting"
        /\ IF ExistingMessage(Db, call.message.id) # {}
           THEN /\ Store([Db EXCEPT !.log = LogLine(SkippingDuplicate, call.message.id)])
                /\ Suspend(p, [call EXCEPT !.pc = "done"])
           ELSE /\ Unchanged
                /\ Suspend(p, [call EXCEPT !.pc = "selectLead"])
        /\ UNCHANGED <<now, response>>

\* The lead query returns.
QrSelectLead(p) ==
    LET call == inFlight[p]
        existingLead == ExistingLead(Db, PhoneNumberOf(call.message.remoteJid))
    IN  /\ call.pc = "selectLead"
        /\ IF existingLead # {}
           THEN Suspend(p, [call EXCEPT !.leadId = FirstOf(existingLead),
                                        !.pc = IF call.upsertType = "notify"
                                               THEN "updateLead" ELSE "selectConv"])
           ELSE Suspend(p, [call EXCEPT !.pc = "selectStage"])
        /\ Unchanged /\ UNCHANGED <<now, response>>

\* The update of lastContactedAt is applied.
QrUpdateLead(p) ==
    LET call == inFlight[p]
    IN  /\ call.pc = "updateLead"
        /\ Store([Db EXCEPT !.leads[call.leadId].lastContactedAt = now])
        /\ Suspend(p, [call EXCEPT !.pc = "selectConv"])
        /\ UNCHANGED <<now, response>>

\* The queries for the default pipeline, its first stage and the stage's
\* highest order return; the first two read tables nothing writes.
QrSelectStage(p) ==
    LET call == inFlight[p]
        stageId == DefaultStageId(Db)
    IN  /\ call.pc = "selectStage"
        /\ Suspend(p, [call EXCEPT !.stageId = stageId,
                                   !.nextOrder = NextOrder(Db, stageId),
                                   !.pc = "insertLead"])
        /\ Unchanged /\ UNCHANGED <<now, response>>

\* The lead is inserted.
QrInsertLead(p) ==
    LET call == inFlight[p]
        newLead == NewLead(Db, call.message, call.stageId, call.nextOrder, now)
    IN  /\ call.pc = "insertLead"
        /\ Store([Db EXCEPT !.leads = Append(@, newLead)])
        /\ Suspend(p, [call EXCEPT !.leadId = newLead.id, !.pc = "selectConv"])
        /\ UNCHANGED <<now, response>>

\* The conversation query returns; the merge is computed from the row read.
QrSelectConv(p) ==
    LET call == inFlight[p]
        existingConv == ExistingConv(Db, call.leadId, QrUserId, call.message.remoteJid)
    IN  /\ call.pc = "selectConv"
        /\ IF existingConv # {}
           THEN LET row == conversations[FirstOf(existingConv)]
                    merged == MergeConversation(row, call.message, call.upsertType, now)
                IN  Suspend(p, [call EXCEPT !.existingConv = row.id,
                                            !.conversationId = row.id,
                                            !.unreadCount = merged.unreadCount,
                                            !.lastMessageAt = merged.lastMessageAt,
                                            !.pc = IF merged = row THEN "insertMessage"
                                                   ELSE "updateConv"])
           ELSE Suspend(p, [call EXCEPT !.pc = "insertConv"])
        /\ Unchanged /\ UNCHANGED <<now, response>>

\* The update of the conversation is applied: the columns the merge set.
QrUpdateConv(p) ==
    LET call == inFlight[p]
        live == call.upsertType = "notify" /\ ~call.message.fromMe
    IN  /\ call.pc = "updateConv"
        /\ Store([Db EXCEPT !.conversations[call.existingConv] =
                     IF live THEN [@ EXCEPT !.unreadCount = call.unreadCount,
                                            !.lastMessageAt = call.lastMessageAt,
                                            !.status = "active"]
                     ELSE [@ EXCEPT !.lastMessageAt = call.lastMessageAt]])
        /\ Suspend(p, [call EXCEPT !.pc = "insertMessage"])
        /\ UNCHANGED <<now, response>>

\* The conversation is inserted.
QrInsertConv(p) ==
    LET call == inFlight[p]
        newConv == NewConversation(Db, call.leadId, QrUserId, call.message,
                                   call.upsertType, now)
    IN  /\ call.pc = "insertConv"
        /\ Store([Db EXCEPT !.conversations = Append(@, newConv)])
        /\ Suspend(p, [call EXCEPT !.conversationId = newConv.id,
                                   !.pc = "insertMessage"])
        /\ UNCHANGED <<now, response>>

\* The ledger row is inserted and the handler returns.
QrInsertMessage(p) ==
    LET call == inFlight[p]
    IN  /\ call.pc = "insertMessage"
        /\ Store([Db EXCEPT
                     !.chatMessages =
                         Append(@, QrChatMessage(Db, call.conversationId, QrUserId,
                                                 call.message, now)),
                     !.log = LogLine(SavedMsg, call.message.id)])
        /\ Suspend(p, [call EXCEPT !.pc = "done"])
        /\ UNCHANGED <<now, response>>

\* Two invocations of the QR handler in flight.
NextQrRace ==
    \E p \in Invocations :
        \/ \E message \in RaceMessages, upsertType \in UpsertTypes :
               QrCallStart(p, message, upsertType)
        \/ QrSelectExisting(p)
        \/ QrSelectLead(p)
        \/ QrUpdateLead(p)
        \/ QrSelectStage(p)
        \/ QrInsertLead(p)
        \/ QrSelectConv(p)
        \/ QrUpdateConv(p)
        \/ QrInsertConv(p)
        \/ QrInsertMessage(p)

SpecQrRace == Init /\ [][NextQrRace]_vars

--------------------------------------------------------------------------
\* The status branch of the webhook one await at a time: each request carries
\* one status update of a routed change.

\* The locals of a request suspended at the query named by pc.
StatusCall(pc, st) ==
    [pc |-> pc, st |-> st, rec |-> NullId, current |-> NoString]

\* The request arrives; the handler logs and issues the ledger update.
StatusPostStart(p, st) ==
    /\ inFlight[p].pc = "idle"
    /\ Store([Db EXCEPT !.log = LogLine(ProcessingStatusUpdates, ToString(1))])
    /\ Suspend(p, StatusCall("updateMessages", st))
    /\ UNCHANGED <<now, response>>

\* The ledger update is applied.
StatusUpdateMessages(p) ==
    LET call == inFlight[p]
    IN  /\ call.pc = "updateMessages"
        /\ Store(UpdateChatMessages(Db, call.st.id, call.st.status, now))
        /\ Suspend(p, [call EXCEPT !.pc = "selectRecipient"])
        /\ UNCHANGED <<now, response>>

\* The recipient query returns: the request keeps the status it read and
\* decides on it whether a transition is due.
StatusSelectRecipient(p) ==
    LET call == inFlight[p]
        rec == {i \in DOMAIN campaignRecipients :
                   campaignRecipients[i].whatsappMessageId = call.st.id}
        current == campaignRecipients[FirstOf(rec)].status
        due == CASE call.st.status = "delivered" -> current \notin {"delivered", "read"}
                 [] call.st.status = "read" -> current # "read"
                 [] call.st.status = "failed" -> current # "failed"
                 [] call.st.status = "sent" -> current = "pending"
                 [] OTHER -> FALSE
    IN  /\ call.pc = "selectRecipient"
        /\ IF rec = {} THEN Suspend(p, [call EXCEPT !.pc = "done"])
           ELSE Suspend(p, [call EXCEPT !.rec = FirstOf(rec),
                                        !.current = current,
                                        !.pc = IF due THEN "updateRecipient" ELSE "done"])
        /\ Unchanged /\ UNCHANGED <<now, response>>

\* The recipient row takes the reported status.
StatusUpdateRecipient(p) ==
    LET call == inFlight[p]
    IN  /\ call.pc = "updateRecipient"
        /\ Store([Db EXCEPT !.campaignRecipients[call.rec].status = call.st.status])
        /\ Suspend(p, [call EXCEPT !.pc =
               CASE call.st.status = "delivered" -> "countDelivered"
                 [] call.st.status = "read" ->
                        IF call.current # "delivered" THEN "countDelivered"
                        ELSE "countRead"
                 [] call.st.status = "failed" -> "countFailed"
                 [] OTHER -> "done"])
        /\ UNCHANGED <<now, response>>

\* messagesDelivered = messagesDelivered + 1, one statement of the database.
StatusCountDelivered(p) ==
    LET call == inFlight[p]
        campaignId == campaignRecipients[call.rec].campaignId
    IN  /\ call.pc = "countDelivered"
        /\ Store([Db EXCEPT !.campaigns[campaignId].messagesDelivered = @ + 1])
        /\ Suspend(p, [call EXCEPT !.pc = IF call.st.status = "read" THEN "countRead"
                                          ELSE "done"])
        /\ UNCHANGED <<now, response>>

StatusCountRead(p) ==
    LET call == inFlight[p]
        campaignId == campaignRecipients[call.rec].campaignId
    IN  /\ call.pc = "countRead"
        /\ Store([Db EXCEPT !.campaigns[campaignId].messagesRead = @ + 1])
        /\ Suspend(p, [call EXCEPT !.pc = "done"])
        /\ UNCHANGED <<now, response>>

StatusCountFailed(p) ==
    LET call == inFlight[p]
        campaignId == campaignRecipients[call.rec].campaignId
    IN  /\ call.pc = "countFailed"
        /\ Store([Db EXCEPT !.campaigns[campaignId].messagesFailed = @ + 1])
        /\ Suspend(p, [call EXCEPT !.pc = "done"])
        /\ UNCHANGED <<now, response>>

\* Two webhook requests in flight.
NextStatusRace ==
    \E p \in Invocations :
        \/ \E st \in StatusEvents : StatusPostStart(p, st)
        \/ StatusUpdateMessages(p)
        \/ StatusSelectRecipient(p)
        \/ StatusUpdateRecipient(p)
        \/ StatusCountDelivered(p)
        \/ StatusCountRead(p)
        \/ StatusCountFailed(p)

SpecStatusRace == InitStatus /\ [][NextStatusRace]_vars

--------------------------------------------------------------------------
\* The POST handler one storage call at a time, each call returning or
\* throwing: the loops over the changes, the statuses and the messages of a
\* payload, the catch around them, and the response.

\* The locals of a request: the payload, the places of the three loops, the
\* conversation of the change, and the responses sent so far.
RunCall(payload) ==
    [pc |-> "change", payload |-> payload, c |-> 1, s |-> 1, m |-> 1,
     conversationId |-> NullId, responses |-> 0]

\* The tables take the values of db; nothing is held back.
Write(db) ==
    /\ leads' = db.leads
    /\ conversations' = db.conversations
    /\ chatMessages' = db.chatMessages
    /\ campaignRecipients' = db.campaignRecipients
    /\ campaigns' = db.campaigns
    /\ log' = db.log
    /\ dispatched' = db.dispatched
    /\ UNCHANGED <<pipelines, pipelineStages>>

\* The part of the state space a request may begin in: there is room for all
\* it can add.
RoomFor(payload) ==
    /\ Len(chatMessages) + MessagesIn(payload) <= MaxMessages
    /\ \A i \in DOMAIN conversations :
          conversations[i].unreadCount + Len(payload) <= MaxUnread

\* A rejected storage call that nothing catches: the request is left where
\* it was and answers nobody.
AfterThrowUnhandled(call) == [call EXCEPT !.pc = "thrown"]

\* A rejected storage call leaves the loops for the catch of the handler.
AfterThrow(call) == [call EXCEPT !.pc = "catch"]

\* The request arrives and passes verification.
RunBegin(p, payload) ==
    /\ inFlight[p].pc \in {"idle", "done"}
    /\ RoomFor(payload)
    /\ Write([Db EXCEPT !.log = LogLine("[Webhook] Payload:", NoString)])
    /\ Suspend(p, RunCall(payload))
    /\ response' = NoResponse
    /\ UNCHANGED now

\* The head of the change loop: past the last change the handler answers
\* 200; a change that cannot be routed is passed over; any other change goes
\* to its statuses.
RunChange(p) ==
    LET call == inFlight[p]
    IN  /\ call.pc = "change"
        /\ IF call.c > Len(call.payload)
           THEN /\ Unchanged
                /\ response' = 200
                /\ Suspend(p, [call EXCEPT !.pc = "done", !.responses = @ + 1])
           ELSE LET change == call.payload[call.c]
                IN  /\ response' = response
                    /\ IF \/ change.phoneNumberId = NoString
                          \/ GetWhatsappNumberIdByPhoneNumberId(change.phoneNumberId) = NullId
                       THEN /\ Write(ProcessChange(Db, change, now))
                            /\ Suspend(p, [call EXCEPT !.c = @ + 1])
                       ELSE /\ Unchanged
                            /\ Suspend(p, [call EXCEPT !.pc = "status", !.s = 1])
        /\ UNCHANGED now

\* One status event of the change: its updates return, or one of them throws.
RunStatus(p, returns) ==
    LET call == inFlight[p]
        statuses == call.payload[call.c].statuses
    IN  /\ call.pc = "status"
        /\ IF call.s > Len(statuses)
           THEN /\ Unchanged
                /\ Suspend(p, [call EXCEPT !.pc = "messages"])
           ELSE IF returns
           THEN /\ Write(ApplyStatus(Db, statuses[call.s], now))
                /\ Suspend(p, [call EXCEPT !.s = @ + 1])
           ELSE /\ Unchanged
                /\ Suspend(p, AfterThrow(call))
        /\ UNCHANGED <<now, response>>

\* The conversation of the change is found or created, or the query throws;
\* a change without messages or without a contact phone goes to the next.
RunMessages(p, returns) ==
    LET call == inFlight[p]
        change == call.payload[call.c]
        contactPhone == IF change.waId # NoString THEN change.waId
                        ELSE change.messages[1].from
        conv == ResolveCloudConversation(
                    Db, GetWhatsappNumberIdByPhoneNumberId(change.phoneNumberId),
                    contactPhone, change.profileName, now)
    IN  /\ call.pc = "messages"
        /\ IF change.messages = <<>> \/ contactPhone = NoString
           THEN /\ Unchanged
                /\ Suspend(p, [call EXCEPT !.pc = "change", !.c = @ + 1])
           ELSE IF returns
           THEN /\ Write(conv.db)
                /\ Suspend(p, [call EXCEPT !.pc = "insert", !.m = 1,
                                            !.conversationId = conv.conversationId])
           ELSE /\ Unchanged
                /\ Suspend(p, AfterThrow(call))
        /\ UNCHANGED <<now, response>>

\* One message of the change is inserted and dispatched, or the insert throws.
RunInsert(p, returns) ==
    LET call == inFlight[p]
        change == call.payload[call.c]
    IN  /\ call.pc = "insert"
        /\ IF call.m > Len(change.messages)
           THEN /\ Unchanged
                /\ Suspend(p, [call EXCEPT !.pc = "change", !.c = @ + 1])
           ELSE IF returns
           THEN /\ Write(InsertMessages(
                             Db, call.conversationId,
                             GetWhatsappNumberIdByPhoneNumberId(change.phoneNumberId),
                             <<change.messages[call.m]>>, now))
                /\ Suspend(p, [call EXCEPT !.m = @ + 1])
           ELSE /\ Unchanged
                /\ Suspend(p, AfterThrow(call))
        /\ UNCHANGED <<now, response>>

\* The catch of the handler logs and answers 200.
RunCatch(p) ==
    LET call == inFlight[p]
    IN  /\ call.pc = "catch"
        /\ Write([Db EXCEPT !.log = LogLine("[Webhook] Critical Error:", NoString)])
        /\ response' = 200
        /\ Suspend(p, [call EXCEPT !.pc = "done", !.responses = @ + 1])
        /\ UNCHANGED now

\* The steps the event loop takes for a request once it has begun.
RunStep(p) ==
    \/ RunChange(p)
    \/ \E returns \in BOOLEAN : RunStatus(p, returns)
    \/ \E returns \in BOOLEAN : RunMessages(p, returns)
    \/ \E returns \in BOOLEAN : RunInsert(p, returns)
    \/ RunCatch(p)

NextRun ==
    \/ \E payload \in FailPayloads \cup {<<u>> : u \in UnroutedChanges} : RunBegin(1, payload)
    \/ RunStep(1)

\* Every storage call returns or throws, so a request that has begun always
\* takes its next step.
SpecRun == Init /\ [][NextRun]_vars /\ WF_vars(RunStep(1))

--------------------------------------------------------------------------
\* Properties.

\* The ledger rows with a provider id on a connection kind.
Ledgered(id, kind) ==
    {i \in DOMAIN chatMessages :
        /\ chatMessages[i].whatsappMessageId = id
        /\ chatMessages[i].whatsappConnectionType = kind}

InboundLedgered(id, kind) ==
    {i \in Ledgered(id, kind) : chatMessages[i].direction = "inbound"}

\* C1: whatever sequence of handleIncomingMessage calls ('append' or 'notify') was
\* processed, at most one ledger row carries a given provider message id on the
\* connection type qr.
QrIdempotent ==
    \A id \in MsgIds : Cardinality(Ledgered(id, "qr")) <= 1

\* A QR message was delivered again and skipped, and its one row is in the ledger.
QrDuplicateSkipped ==
    /\ log.line = SkippingDuplicate
    /\ Cardinality(Ledgered(log.arg, "qr")) = 1

\* C2: whatever sequence of webhook deliveries was processed, at most one inbound
\* ledger row carries a given provider message id on the connection type api.
ApiIdempotent ==
    \A id \in MsgIds : Cardinality(InboundLedgered(id, "api")) <= 1

\* C3: a handleIncomingMessage call whose message.key.id is already ledgered for
\* qr leaves the leads, the conversations and the ledger as they were, for
\* 'notify' and for 'append'.
QrDuplicateIsNoOp ==
    [][\A message \in QrMessages, upsertType \in UpsertTypes :
          (/\ ~IsFilteredJid(message.remoteJid)
           /\ Ledgered(message.id, "qr") # {}
           /\ QrUpsert(message, upsertType))
          => UNCHANGED <<leads, conversations, chatMessages>>]_vars

\* A duplicate was skipped later than the lead's last contact, in a conversation
\* that holds an unread message.
QrDuplicateAfterContact ==
    /\ log.line = SkippingDuplicate
    /\ \E i \in DOMAIN leads : leads[i].lastContactedAt < now
    /\ \E i \in DOMAIN conversations :
          /\ conversations[i].whatsappConnectionType = "qr"
          /\ conversations[i].unreadCount > 0

\* The change is routed to a connected number.
Routed(change) ==
    /\ change.phoneNumberId # NoString
    /\ GetWhatsappNumberIdByPhoneNumberId(change.phoneNumberId) # NullId

\* C4: a webhook delivery of a change whose inbound messages are all ledgered
\* already (same provider ids, kind api) leaves every unreadCount as it was.
ApiRedeliveryKeepsUnread ==
    [][\A payload \in MessagePayloads :
          (/\ Routed(payload[1])
           /\ \A k \in DOMAIN payload[1].messages :
                 InboundLedgered(payload[1].messages[k].id, "api") # {}
           /\ WebhookPost(payload))
          => \A i \in DOMAIN conversations :
                 conversations'[i].unreadCount = conversations[i].unreadCount]_vars

\* C5: the same provider id on the two connection kinds gives two rows: a QR
\* delivery ends with a qr row of that id in the ledger, and is skipped only for
\* a qr row, whatever api rows exist; a cloud delivery ends with a new api row,
\* whatever qr rows exist.
CrossChannelNonCollision ==
    /\ log.line \in {SkippingDuplicate, SavedMsg} => Ledgered(log.arg, "qr") # {}
    /\ log.line = MessageSavedToDb =>
          LET last == chatMessages[Len(chatMessages)]
          IN  /\ last.whatsappConnectionType = "api"
              /\ last.direction = "inbound"
              /\ ToString(last.conversationId) = log.arg

\* One provider id was ledgered through the webhook and then saved through the
\* QR bridge.
SameIdOnBothKinds ==
    /\ log.line = SavedMsg
    /\ InboundLedgered(log.arg, "api") # {}
    /\ Cardinality(Ledgered(log.arg, "qr")) = 1

\* The order sent < delivered < read.
Rank(status) ==
    CASE status = "sent" -> 1
      [] status = "delivered" -> 2
      [] status = "read" -> 3
      [] OTHER -> 0

\* C6: the status of a ledger row never moves backward along
\* sent < delivered < read.
MonotonicStatus ==
    [][\A i \in DOMAIN chatMessages :
          (/\ chatMessages[i].status \in {"sent", "delivered", "read"}
           /\ chatMessages'[i].status \in {"sent", "delivered", "read"})
          => Rank(chatMessages'[i].status) >= Rank(chatMessages[i].status)]_vars

\* C7: once the status of a ledger row is failed, no later status event changes it.
FailedIsTerminal ==
    [][\A i \in DOMAIN chatMessages :
          chatMessages[i].status = "failed" => chatMessages'[i].status = "failed"]_vars

\* The payload that carries exactly these status events.
StatusPayload(statuses) ==
    <<[phoneNumberId |-> KnownPhoneNumberId, statuses |-> statuses,
       messages |-> <<>>, waId |-> NoString, profileName |-> NoString]>>

StatusFor(id, status) == [id |-> id, status |-> status]

\* The recipient rows linked to a provider message id.
RecipientsOf(id) ==
    {r \in DOMAIN campaignRecipients : campaignRecipients[r].whatsappMessageId = id}

CountersAfter(campaign, delivered, read, failed) ==
    [campaign EXCEPT !.messagesDelivered = @ + delivered,
                     !.messagesRead = @ + read,
                     !.messagesFailed = @ + failed]

\* C8: for a recipient at pending or sent, delivered then read adds one to
\* messagesDelivered and one to messagesRead of its campaign, and so does read
\* alone.
CampaignCounterExactness ==
    [][\A r \in DOMAIN campaignRecipients :
          LET id == campaignRecipients[r].whatsappMessageId
              c == campaignRecipients[r].campaignId
          IN  (/\ campaignRecipients[r].status \in {"pending", "sent"}
               /\ \/ WebhookPost(StatusPayload(<<StatusFor(id, "delivered"),
                                                 StatusFor(id, "read")>>))
                  \/ WebhookPost(StatusPayload(<<StatusFor(id, "read")>>)))
              => campaigns'[c] = CountersAfter(campaigns[c], 1, 1, 0)]_vars

\* The recipient was read without a delivered event ever arriving, and its
\* campaign counts one delivery and one read.
ReadDirectlyCounted ==
    /\ campaignRecipients[1].status = "read"
    /\ chatMessages[1].deliveredAt = NullTime
    /\ campaigns[1] = CountersAfter(InitialCampaigns[1], 1, 1, 0)

\* C9: whatever sequence of status events was processed for the one recipient of
\* a campaign, each counter of the campaign was incremented at most once.
NoDoubleCounting ==
    \A c \in DOMAIN campaigns :
        Cardinality({r \in DOMAIN campaignRecipients :
                        campaignRecipients[r].campaignId = c}) = 1
        => /\ campaigns[c].messagesDelivered <= 1
           /\ campaigns[c].messagesRead <= 1
           /\ campaigns[c].messagesFailed <= 1

\* C10: a sent event changes a recipient only from pending, and a sent or
\* delivered event leaves a recipient at delivered or read as it is.
SentOnlyFromPending ==
    [][\A st \in StatusEvents :
          (/\ st.status \in {"sent", "delivered"}
           /\ WebhookPost(StatusPayload(<<st>>)))
          => \A r \in RecipientsOf(st.id) :
                /\ (st.status = "sent" /\ campaignRecipients'[r] # campaignRecipients[r])
                       => campaignRecipients[r].status = "pending"
                /\ campaignRecipients[r].status \in {"delivered", "read"}
                       => campaignRecipients'[r] = campaignRecipients[r]]_vars

\* A sent event arrived for a recipient already delivered or read: the ledger row
\* shows it, the recipient kept its status.
LateSentIgnored ==
    /\ campaignRecipients[1].status \in {"delivered", "read"}
    /\ chatMessages[1].status = "sent"
    /\ chatMessages[1].deliveredAt # NullTime

\* C11: two invocations of the QR handler in flight with the same provider id,
\* interleaving at their awaits, leave at most one qr ledger row for that id.
QrIdempotentInFlight ==
    \A id \in MsgIds : Cardinality(Ledgered(id, "qr")) <= 1

\* C12: two webhook requests carrying the same status for the same campaign
\* recipient, interleaving between the read of the recipient's status and the
\* updates, increment each campaign counter once only.
StatusCountedOnceInFlight ==
    (/\ \A p \in Invocations : inFlight[p].pc # "idle"
     /\ inFlight[1].st = inFlight[2].st
     /\ inFlight[1].st.id = CampaignMessageId)
        => \A c \in DOMAIN campaigns :
              /\ campaigns[c].messagesDelivered <= 1
              /\ campaigns[c].messagesRead <= 1
              /\ campaigns[c].messagesFailed <= 1

\* The leads with the phone of a QR message.
LeadsOf(message) == ExistingLead(Db, PhoneNumberOf(message.remoteJid))

\* The event reaches the lead resolver: it is saved by the step taken.
QrSaved(message, upsertType) ==
    /\ log' = LogLine(SavedMsg, message.id)
    /\ QrUpsert(message, upsertType)

\* C13: messages from one phone number processed one after another leave
\* exactly one lead with that phone: a step never leaves two leads with one
\* phone, every ledgered QR message has exactly one lead with its phone, and a
\* message of a phone that has a lead creates none and changes no column of an
\* existing lead other than lastContactedAt.
LeadDedup ==
    [][/\ \A i, j \in DOMAIN leads' : leads'[i].phone = leads'[j].phone => i = j
       /\ \A m \in DOMAIN chatMessages' :
             chatMessages'[m].whatsappConnectionType = "qr" =>
                 Cardinality({i \in DOMAIN leads' :
                     leads'[i].phone =
                         conversations'[chatMessages'[m].conversationId].contactPhone}) = 1
       /\ \A i \in DOMAIN leads :
             leads'[i] = [leads[i] EXCEPT !.lastContactedAt = leads'[i].lastContactedAt]
       /\ \A message \in LeadMessages, upsertType \in UpsertTypes :
             (LeadsOf(message) # {} /\ QrSaved(message, upsertType))
                 => Len(leads') = Len(leads)]_vars

\* Two messages with distinct provider ids from one phone are ledgered.
TwoMessagesOneLead ==
    \E m, n \in DOMAIN chatMessages :
        /\ chatMessages[m].whatsappMessageId # chatMessages[n].whatsappMessageId
        /\ chatMessages[m].whatsappConnectionType = "qr"
        /\ chatMessages[n].whatsappConnectionType = "qr"
        /\ chatMessages[m].conversationId = chatMessages[n].conversationId
        /\ Cardinality({i \in DOMAIN leads : leads[i].phone =
               conversations[chatMessages[m].conversationId].contactPhone}) = 1

\* C14: when the lead exists, a 'notify' event that reaches the resolver sets
\* lastContactedAt to the current time and nothing else on the lead, and an
\* 'append' event leaves the leads as they were.
ExistingLeadTouch ==
    [][\A message \in LeadMessages, upsertType \in UpsertTypes :
          (LeadsOf(message) # {} /\ QrSaved(message, upsertType))
              => leads' = IF upsertType = "notify"
                          THEN [leads EXCEPT ![FirstOf(LeadsOf(message))].lastContactedAt
                                                 = now]
                          ELSE leads]_vars

\* A lead created from a message stamped 1 was contacted again at time 2.
LeadContactedAgain ==
    \E i \in DOMAIN leads :
        /\ leads[i].source = "whatsapp_inbound"
        /\ leads[i].lastContactedAt = 2
        /\ Cardinality({m \in DOMAIN chatMessages :
               conversations[chatMessages[m].conversationId].leadId = i}) = 2

\* The highest kanbanOrder among the leads of a stage before the step.
MaxOrderIn(stageId) ==
    LET inStage == {i \in DOMAIN leads : leads[i].pipelineStageId = stageId}
    IN  CHOOSE k \in {leads[i].kanbanOrder : i \in inStage} :
            \A i \in inStage : leads[i].kanbanOrder <= k

\* C15, as stated: a created lead's kanbanOrder is max(kanbanOrder) + 1 over
\* the leads already in its stage, and 0 when the stage has no leads or there
\* is no stage.
NewLeadOrderZeroWhenEmpty ==
    [][Len(leads') = Len(leads) + 1 =>
          LET lead == leads'[Len(leads')]
              inStage == {i \in DOMAIN leads :
                             leads[i].pipelineStageId = lead.pipelineStageId}
          IN  lead.kanbanOrder =
                  IF lead.pipelineStageId = NullId \/ inStage = {} THEN 0
                  ELSE MaxOrderIn(lead.pipelineStageId) + 1]_vars

\* C15, amended: a created lead's kanbanOrder is max(kanbanOrder) + 1 over the
\* leads already in its stage, 1 when that stage has no leads, and 0 when no
\* stage was resolved.
NewLeadOrder ==
    [][Len(leads') = Len(leads) + 1 =>
          LET lead == leads'[Len(leads')]
              inStage == {i \in DOMAIN leads :
                             leads[i].pipelineStageId = lead.pipelineStageId}
          IN  lead.kanbanOrder =
                  IF lead.pipelineStageId = NullId THEN 0
                  ELSE IF inStage = {} THEN 1
                  ELSE MaxOrderIn(lead.pipelineStageId) + 1]_vars

\* Two leads were created in the first stage, the second ordered after the
\* first.
SecondLeadInStage ==
    \E i, j \in DOMAIN leads :
        /\ leads[i].source = "whatsapp_inbound" /\ leads[j].source = "whatsapp_inbound"
        /\ leads[i].pipelineStageId = leads[j].pipelineStageId
        /\ leads[i].pipelineStageId # NullId
        /\ leads[i].kanbanOrder = 1 /\ leads[j].kanbanOrder = 2

\* The lowest-order stage of the pipeline flagged default, if there is one.
LowestDefaultStage ==
    LET flagged == {pipelines[i].id : i \in {j \in DOMAIN pipelines : pipelines[j].isDefault}}
        stages == {i \in DOMAIN pipelineStages : pipelineStages[i].pipelineId \in flagged}
    IN  IF stages = {} THEN NullId
        ELSE pipelineStages[CHOOSE i \in stages :
                 \A j \in stages : pipelineStages[i].order <= pipelineStages[j].order].id

\* C16: a created lead has source 'whatsapp_inbound', the display name as its
\* name if one was given and the phone otherwise, and the lowest-order stage of
\* the default pipeline, or no stage when there is none.
NewLeadFields ==
    [][\A message \in LeadMessages, upsertType \in UpsertTypes :
          (LeadsOf(message) = {} /\ QrSaved(message, upsertType))
              => /\ Len(leads') = Len(leads) + 1
                 /\ LET lead == leads'[Len(leads')]
                    IN  /\ lead.source = "whatsapp_inbound"
                        /\ lead.phone = PhoneNumberOf(message.remoteJid)
                        /\ lead.name = IF message.pushName # NoString
                                       THEN message.pushName ELSE lead.phone
                        /\ lead.pipelineStageId = LowestDefaultStage]_vars

\* The conversation a QR message belongs to, before the step.
ConvOf(message) ==
    ExistingConv(Db, FirstOf(LeadsOf(message)), QrUserId, message.remoteJid)

\* The event is saved by the step taken, into a conversation that existed.
QrMerged(message, upsertType) ==
    /\ LeadsOf(message) # {}
    /\ ConvOf(message) # {}
    /\ QrSaved(message, upsertType)

\* C17: a 'notify' event not sent by the user that is merged into an existing
\* conversation adds exactly 1 to unreadCount, sets lastMessageAt to the
\* current time and the status to active, whatever the status was, and
\* changes nothing else of the conversations.
LiveInboundMerge ==
    [][\A message \in MergeMessages :
          (~message.fromMe /\ QrMerged(message, "notify"))
              => LET c == FirstOf(ConvOf(message))
                 IN  conversations' =
                         [conversations EXCEPT
                             ![c] = [@ EXCEPT !.unreadCount = @ + 1,
                                              !.lastMessageAt = now,
                                              !.status = "active"]]]_vars

\* The conversation that began archived was revived by one live message.
ArchivedRevived ==
    /\ conversations[1].status = "active"
    /\ conversations[1].unreadCount = 1
    /\ conversations[1].lastMessageAt = now
    /\ log = LogLine(SavedMsg, chatMessages[Len(chatMessages)].whatsappMessageId)
    /\ chatMessages[Len(chatMessages)].conversationId = 1
    /\ chatMessages[Len(chatMessages)].direction = "inbound"

\* C18: an 'append' event not sent by the user that is merged into an existing
\* conversation sets lastMessageAt to the later of its current value and the
\* event's timestamp and changes nothing else, so that lastMessageAt does not
\* decrease, unreadCount is kept and an archived conversation stays archived.
HistoryReplayMerge ==
    [][\A message \in MergeMessages :
          (~message.fromMe /\ QrMerged(message, "append"))
              => LET c == FirstOf(ConvOf(message))
                     current == conversations[c].lastMessageAt
                     later == IF message.messageTimestamp > current
                              THEN message.messageTimestamp ELSE current
                 IN  /\ conversations' = [conversations EXCEPT ![c].lastMessageAt = later]
                     /\ conversations'[c].lastMessageAt >= current
                     /\ conversations'[c].status = conversations[c].status
                     /\ conversations'[c].unreadCount = conversations[c].unreadCount]_vars

\* Two replayed messages, the older one last, left the archived conversation
\* archived and at the later timestamp.
ReplayedOutOfOrder ==
    /\ Len(chatMessages) = 2
    /\ \A m \in DOMAIN chatMessages :
          chatMessages[m].conversationId = 1 /\ chatMessages[m].direction = "inbound"
    /\ chatMessages[1].sentAt = 2 /\ chatMessages[2].sentAt = 1
    /\ conversations[1].status = "archived"
    /\ conversations[1].unreadCount = 0
    /\ conversations[1].lastMessageAt = 2

\* C19: an event sent by the user that is merged into an existing
\* conversation, live or replayed, leaves unreadCount and status as they were
\* and changes lastMessageAt only when the event's timestamp is strictly newer
\* or lastMessageAt was unset.
OutboundMerge ==
    [][\A message \in MergeMessages, upsertType \in UpsertTypes :
          (message.fromMe /\ QrMerged(message, upsertType))
              => LET c == FirstOf(ConvOf(message))
                     current == conversations[c].lastMessageAt
                 IN  conversations' =
                         [conversations EXCEPT ![c].lastMessageAt =
                             IF current = NullTime \/ message.messageTimestamp > current
                             THEN message.messageTimestamp ELSE current]]_vars

\* Only messages the user sent were merged into the conversation never
\* written to: lastMessageAt is set, nothing is unread.
OutboundSetsUnset ==
    /\ \E m \in DOMAIN chatMessages : chatMessages[m].conversationId = 2
    /\ \A m \in DOMAIN chatMessages :
          chatMessages[m].conversationId = 2 => chatMessages[m].direction = "outbound"
    /\ log = LogLine(SavedMsg, chatMessages[Len(chatMessages)].whatsappMessageId)
    /\ chatMessages[Len(chatMessages)].conversationId = 2
    /\ conversations[2].lastMessageAt # NullTime
    /\ conversations[2].unreadCount = 0
    /\ conversations[2].status = "active"

\* C20: a conversation created by either resolver starts active; created on
\* the cloud path, whose events are all inbound, it starts with unreadCount 1;
\* created on the QR path it starts with unreadCount 1 when the event is
\* 'notify' and not sent by the user, and with 0 otherwise.
CreatedConversationUnread ==
    [][Len(conversations') > Len(conversations) =>
          LET conv == conversations'[Len(conversations')]
          IN  /\ conv.status = "active"
              /\ conv.whatsappConnectionType = "api" => conv.unreadCount = 1
              /\ \A message \in QrMessages, upsertType \in UpsertTypes :
                    QrSaved(message, upsertType) =>
                        conv.unreadCount = IF upsertType = "notify" /\ ~message.fromMe
                                           THEN 1 ELSE 0]_vars

\* Each path created a conversation: the QR one holds a single message and
\* counts nothing unread, the cloud one counts 1.
CreatedOnBothPaths ==
    \E c, d \in DOMAIN conversations :
        /\ conversations[c].whatsappConnectionType = "qr"
        /\ conversations[c].unreadCount = 0
        /\ conversations[c].status = "active"
        /\ Cardinality({m \in DOMAIN chatMessages :
               chatMessages[m].conversationId = c}) = 1
        /\ d > Len(InitialConversations)
        /\ conversations[d].whatsappConnectionType = "api"
        /\ conversations[d].unreadCount = 1
        /\ conversations[d].status = "active"

\* The ledger rows the step added to conversation c.
AddedTo(c) ==
    {m \in DOMAIN chatMessages' \ DOMAIN chatMessages :
        chatMessages'[m].conversationId = c}

\* The step is a webhook request whose last change ledgered messages.
CloudSaved ==
    /\ log'.line = MessageSavedToDb
    /\ Len(chatMessages') > Len(chatMessages)

\* C21: a webhook change carrying n inbound messages for an existing
\* conversation adds 1 to unreadCount per ledgered message, n in all.
UnreadPerMessage ==
    [][CloudSaved =>
          \A c \in DOMAIN conversations :
              conversations'[c].unreadCount
                  = conversations[c].unreadCount + Cardinality(AddedTo(c))]_vars

\* C22: after an inbound cloud message is ledgered into an existing
\* conversation, the conversation is active, archived before or not.
CloudRevivesArchived ==
    [][CloudSaved =>
          \A c \in DOMAIN conversations :
              AddedTo(c) # {} => conversations'[c].status = "active"]_vars

\* C23: the two connection kinds never merge conversations: every ledger row
\* lies in a conversation of its own connection kind.
KindsNeverMerge ==
    \A m \in DOMAIN chatMessages :
        conversations[chatMessages[m].conversationId].whatsappConnectionType
            = chatMessages[m].whatsappConnectionType

\* C24: a call whose remoteJid is missing, is a status broadcast or is a
\* linked id leaves every table as it was, whatever the upsert type: no lead,
\* conversation or ledger row is created or modified.
BroadcastFiltered ==
    \A message \in FilteredMessages, upsertType \in UpsertTypes :
        LET db == HandleIncomingMessage(Db, QrUserId, message, upsertType, now)
        IN  /\ db.leads = leads
            /\ db.conversations = conversations
            /\ db.chatMessages = chatMessages

\* Leads, conversations and ledger rows exist and the new message of the
\* contact would be saved, while the same message under each filtered jid
\* leaves the tables alone.
FilteredAmongSaved ==
    /\ chatMessages # <<>>
    /\ \E message \in MergeMessages :
          /\ HandleIncomingMessage(Db, QrUserId, message, "notify", now).chatMessages
                 # chatMessages
          /\ \A jid \in FilteredJids :
                HandleIncomingMessage(Db, QrUserId, [message EXCEPT !.remoteJid = jid],
                                      "notify", now) = Db

\* The serialized raw payload of a cloud message and of a QR message body.
RawCloud(m) == "{id:" \o m.id \o ",from:" \o m.from \o ",type:" \o m.type \o "}"
RawQr(body) == "{" \o body.kind \o ":" \o body.text \o "}"

\* The row the step appended to the ledger.
LastRow == chatMessages'[Len(chatMessages')]

\* C25: on either transport an inbound message of a type the normalizer does
\* not recognise is ledgered as a row of messageType text whose content is the
\* serialized raw payload.
UnknownTypeFallback ==
    [][/\ \A payload \in TypePayloads :
             (payload[1].messages[1].type = "reaction" /\ WebhookPost(payload))
                 => /\ Len(chatMessages') = Len(chatMessages) + 1
                    /\ LastRow.messageType = "text"
                    /\ LastRow.content = RawCloud(payload[1].messages[1])
       /\ \A message \in TypeQrMessages :
             (/\ message.body.kind = "reactionMessage"
              /\ ~message.fromMe
              /\ ExistingMessage(Db, message.id) = {}
              /\ QrUpsert(message, "notify"))
                 => /\ Len(chatMessages') = Len(chatMessages) + 1
                    /\ LastRow.messageType = "text"
                    /\ LastRow.content = RawQr(message.body)]_vars

\* C26: every row inserted for an inbound message, on either transport, has
\* direction inbound and status delivered; every row inserted for a QR message
\* the user sent has direction outbound and status sent.
InitialStatusByDirection ==
    [][Len(chatMessages') > Len(chatMessages) =>
          /\ LastRow.whatsappConnectionType = "api"
                 => LastRow.direction = "inbound" /\ LastRow.status = "delivered"
          /\ \A message \in TypeQrMessages :
                QrSaved(message, "notify") =>
                    /\ LastRow.direction = IF message.fromMe THEN "outbound" ELSE "inbound"
                    /\ LastRow.status = IF message.fromMe THEN "sent" ELSE "delivered"]_vars

\* The ledger holds an inbound row of each transport and a row the user sent.
RowOfEachDirection ==
    /\ \E m \in DOMAIN chatMessages :
          /\ chatMessages[m].whatsappConnectionType = "api"
          /\ chatMessages[m].direction = "inbound" /\ chatMessages[m].status = "delivered"
    /\ \E m \in DOMAIN chatMessages :
          /\ chatMessages[m].whatsappConnectionType = "qr"
          /\ chatMessages[m].direction = "inbound" /\ chatMessages[m].status = "delivered"
    /\ \E m \in DOMAIN chatMessages :
          /\ chatMessages[m].whatsappConnectionType = "qr"
          /\ chatMessages[m].direction = "outbound" /\ chatMessages[m].status = "sent"

\* The tables and the events dispatched are as they were before the step.
NothingMutated ==
    UNCHANGED <<leads, conversations, chatMessages, campaignRecipients, campaigns,
                dispatched>>

\* The header is exactly the scheme and the digest of the raw body, in either
\* case of the hex letters.
WellSigned(secret, req) ==
    /\ req.scheme = "sha256="
    /\ req.rawBody # NoString
    /\ Len(req.signature) = Len(HmacHex(secret, req.rawBody))
    /\ \A i \in DOMAIN req.signature :
          HexValue(req.signature[i]) = HmacHex(secret, req.rawBody)[i]

IllSigned == {req \in Requests : ~WellSigned(AppSecret, req)}

\* C27: with a secret configured, a request whose signature header is missing,
\* malformed or not the HMAC of the raw body, or whose raw body is missing, is
\* answered 401, mutates no table and dispatches no event; verifySignature
\* returns false for it and does not throw.
IllSignedRejected ==
    [][\A req \in IllSigned :
          /\ VerifySignature(AppSecret, req) = FALSE
          /\ WebhookRequest(AppSecret, req) => response' = 401 /\ NothingMutated]_vars

\* C28: every webhook POST that passes signature verification is answered
\* 200, also when an insert rejects part-way through the batch: the catch at
\* the top of the handler answers it.
AlwaysAnswered200 ==
    [][\A payload \in FailPayloads :
          /\ WebhookPost(payload) => response' = 200
          /\ \A c \in {1, 2}, m \in {1, 2} :
                WebhookPostInsertThrows(payload, c, m) => response' = 200]_vars

\* A batch was answered 200 from the catch with part of it ledgered.
AnsweredFromCatch ==
    /\ response = 200
    /\ log = LogLine("[Webhook] Critical Error:", NoString)
    /\ Len(chatMessages) = Len(InitialChatMessages) + 1

\* C29: when the insert of one message of a cloud batch rejects, the messages,
\* statuses and changes that come later in the batch are processed all the
\* same: the later messages are in the ledger.
SiblingsLedgered ==
    [][\A payload \in FailPayloads, c \in {1, 2}, m \in {1, 2} :
          WebhookPostInsertThrows(payload, c, m) =>
              \A c2 \in DOMAIN payload : \A m2 \in DOMAIN payload[c2].messages :
                  (c2 > c \/ (c2 = c /\ m2 > m)) =>
                      \E r \in DOMAIN chatMessages' :
                          /\ r > Len(chatMessages)
                          /\ chatMessages'[r].whatsappMessageId = payload[c2].messages[m2].id]_vars

\* The tables and the events dispatched are after the step those of db.
TablesBecome(db) ==
    /\ leads' = db.leads
    /\ conversations' = db.conversations
    /\ chatMessages' = db.chatMessages
    /\ campaignRecipients' = db.campaignRecipients
    /\ campaigns' = db.campaigns
    /\ dispatched' = db.dispatched

\* The tables and the events dispatched of db are those of the state.
TablesKept(db) ==
    /\ db.leads = leads
    /\ db.conversations = conversations
    /\ db.chatMessages = chatMessages
    /\ db.campaignRecipients = campaignRecipients
    /\ db.campaigns = campaigns
    /\ db.dispatched = dispatched

\* C30: a change whose phone_number_id is absent or maps to no connected
\* number is skipped without any mutation (its status is not applied, no
\* conversation or message is created for it), and the other change of the
\* same payload is processed as it would be alone, be it before or after.
UnroutedSkipped ==
    [][\A u \in UnroutedChanges :
          /\ TablesKept(ProcessChange(Db, u, now))
          /\ \A c \in BatchChanges :
                (<<u, c>> \in MixedPayloads /\ (WebhookPost(<<u, c>>) \/ WebhookPost(<<c, u>>)))
                    => /\ TablesBecome(ProcessChange(Db, c, now))
                       /\ response' = 200]_vars

\* A payload whose second change could not be routed was answered, and the
\* message of its first change is in the ledger.
RoutedBeforeUnrouted ==
    /\ log.line \in {"[Webhook] No phone_number_id found in change",
                     "[Webhook] No connected number found for Phone ID"}
    /\ Len(chatMessages) = 1
    /\ Len(dispatched) = 1
    /\ response = 200

\* C31: the statuses of a change are all applied to the rows the ledger held,
\* whether the change has messages, none, or messages that are skipped for
\* want of a contact phone; its messages are all ledgered whether it has
\* statuses or none; and the statuses are applied before the messages are
\* inserted, so a row inserted by the change is not touched by its statuses.
StatusesAndMessagesIndependent ==
    [][\A change \in BothKindsChanges :
          WebhookPost(<<change>>) =>
              LET applied == ProcessStatuses(Db, change.statuses, now)
                  skipped == change.messages = <<>> \/ change.messages[1].from = NoString
                  added == IF skipped THEN 0 ELSE Len(change.messages)
              IN  /\ Len(chatMessages') = Len(chatMessages) + added
                  /\ SubSeq(chatMessages', 1, Len(chatMessages)) = applied.chatMessages
                  /\ campaignRecipients' = applied.campaignRecipients
                  /\ campaigns' = applied.campaigns
                  /\ \A i \in 1..added :
                        /\ chatMessages'[Len(chatMessages) + i].whatsappMessageId
                               = change.messages[i].id
                        /\ chatMessages'[Len(chatMessages) + i].status = "delivered"
                        /\ chatMessages'[Len(chatMessages) + i].readAt = NullTime]_vars

\* A change brought a read receipt for the campaign message and a message of
\* the same provider id: the old row is read, the new row is not.
StatusThenMessageOfSameId ==
    /\ Len(chatMessages) = 2
    /\ chatMessages[1].status = "read"
    /\ chatMessages[2].whatsappMessageId = chatMessages[1].whatsappMessageId
    /\ chatMessages[2].status = "delivered"
    /\ campaigns[1].messagesRead = 1

\* The rows a step adds to the ledger for inbound messages.
InboundAdded ==
    {r \in DOMAIN chatMessages' :
        r > Len(chatMessages) /\ chatMessages'[r].direction = "inbound"}

\* C32: on both transports a step dispatches one message_received event for
\* each inbound row it inserts, naming that row's conversation and provider
\* id, and dispatches nothing else.
DispatchPerInboundRow ==
    [][/\ Len(dispatched') = Len(dispatched) + Cardinality(InboundAdded)
       /\ SubSeq(dispatched', 1, Len(dispatched)) = dispatched
       /\ \A r \in InboundAdded :
             \E e \in Len(dispatched) + 1 .. Len(dispatched') :
                 /\ dispatched'[e].whatsappMessageId = chatMessages'[r].whatsappMessageId
                 /\ dispatched'[e].conversationId = chatMessages'[r].conversationId]_vars

\* The database with every dispatch still pending.
AllPending ==
    [Db EXCEPT !.dispatched = [e \in DOMAIN @ |-> [@[e] EXCEPT !.outcome = "pending"]]]

\* C33: how a dispatch ends, or that it never ends, changes neither the ledger
\* nor the response, and the handler does not wait for it: a payload is
\* handled to the same tables whatever became of the earlier dispatches, all
\* its messages are ledgered, it is answered 200, and its own dispatches are
\* still pending when it is answered.
DispatcherIsolated ==
    [][/\ \A e \in 1..MaxMessages, outcome \in {"fulfilled", "rejected"} :
             DispatchSettles(e, outcome) =>
                 UNCHANGED <<leads, conversations, chatMessages, campaignRecipients,
                             campaigns, response>>
       /\ \A payload \in FailPayloads :
             WebhookPost(payload) =>
                 LET out == ProcessChanges(AllPending, payload, now)
                 IN  /\ conversations' = out.conversations
                     /\ chatMessages' = out.chatMessages
                     /\ campaignRecipients' = out.campaignRecipients
                     /\ campaigns' = out.campaigns
                     /\ Len(chatMessages') = Len(chatMessages) + MessagesIn(payload)
                     /\ response' = 200
                     /\ \A e \in Len(dispatched) + 1 .. Len(dispatched') :
                           dispatched'[e].outcome = "pending"]_vars

\* A payload was handled and answered after the dispatch of an earlier one
\* had failed, and its own dispatch has not ended.
HandledAfterFailedDispatch ==
    /\ Len(dispatched) = 2
    /\ dispatched[1].outcome = "rejected"
    /\ dispatched[2].outcome = "pending"
    /\ Len(chatMessages) = Len(InitialChatMessages) + 2
    /\ log.line = MessageSavedToDb
    /\ response = 200

\* The row differs from what it was in nothing but its status and the
\* timestamp that belongs to the status it has now.
OnlyStatusPatched(old, new) ==
    /\ new.status \in Statuses
    /\ new = [old EXCEPT !.status = new.status,
                         !.sentAt = IF new.status = "sent" THEN new.sentAt ELSE @,
                         !.deliveredAt = IF new.status = "delivered" THEN new.deliveredAt ELSE @,
                         !.readAt = IF new.status = "read" THEN new.readAt ELSE @]

\* C34: a row of the ledger stays where it is, and no step of either
\* transport (a status event, a later message, a duplicate) changes any of
\* its fields but status and the timestamp of the new status.
LedgerRowsImmutable ==
    [][/\ Len(chatMessages') >= Len(chatMessages)
       /\ \A r \in DOMAIN chatMessages :
             OnlyStatusPatched(chatMessages[r], chatMessages'[r])]_vars

\* A row was inserted on each transport, one of them was inserted again, and
\* a read receipt has patched them.
PatchedAmongLaterRows ==
    /\ Len(chatMessages) = 3
    /\ chatMessages[1] = InitialChatMessages[1]
    /\ chatMessages[2].status = "read" /\ chatMessages[2].readAt = now
    /\ chatMessages[2].content = "hi" /\ chatMessages[2].direction = "inbound"
    /\ \E r \in DOMAIN chatMessages : chatMessages[r].whatsappConnectionType = "qr"

\* C35: a request that has begun processing, whatever its payload and
\* whichever of its storage calls throw, comes to its end having sent exactly
\* one response; it never sends a second.
RunsToOneResponse ==
    /\ [](inFlight[1].pc # "idle" =>
             /\ inFlight[1].responses <= 1
             /\ inFlight[1].responses = 1 <=> inFlight[1].pc = "done")
    /\ (inFlight[1].pc \notin {"idle", "done"}) ~> (inFlight[1].pc = "done")

\* A request of two changes ended after a throw in its second change: the
\* first change is in the ledger and one response was sent, from the catch.
RespondedOnceAfterThrow ==
    /\ inFlight[1].pc = "done"
    /\ inFlight[1].responses = 1
    /\ Len(inFlight[1].payload) = 2 /\ inFlight[1].c = 2
    /\ log = LogLine("[Webhook] Critical Error:", NoString)
    /\ Len(chatMessages) = Len(InitialChatMessages) + 1
    /\ response = 200

\* C36: a status event of the cloud webhook for a provider id changes only the
\* outbound api row of that id: no step changes a row of connection type qr
\* or an inbound row.
StatusRespectsKind ==
    [][\A r \in DOMAIN chatMessages :
          (\/ chatMessages[r].whatsappConnectionType = "qr"
           \/ chatMessages[r].direction = "inbound")
              => chatMessages'[r] = chatMessages[r]]_vars

\* C37: whatever events were processed one after another on either
\* transport, no two api conversations have the same whatsappNumberId and
\* contactPhone, and no two qr conversations have the same whatsappNumberId
\* and externalChatId.
ConversationsUnique ==
    \A i, j \in DOMAIN conversations :
        (/\ i # j
         /\ conversations[i].whatsappConnectionType = conversations[j].whatsappConnectionType
         /\ conversations[i].whatsappNumberId = conversations[j].whatsappNumberId)
            => IF conversations[i].whatsappConnectionType = "api"
               THEN conversations[i].contactPhone # conversations[j].contactPhone
               ELSE conversations[i].externalChatId # conversations[j].externalChatId

\* A conversation of each kind was created and a later message was filed in
\* one of them.
ConversationReused ==
    /\ Len(conversations) = 2
    /\ \E i, j \in DOMAIN conversations :
          /\ conversations[i].whatsappConnectionType = "api"
          /\ conversations[j].whatsappConnectionType = "qr"
          /\ conversations[j].unreadCount = 2
    /\ Len(chatMessages) = 3

\* C38: two invocations of the QR handler in flight with different provider
\* ids from the same phone number, unknown before, interleaving at their
\* awaits, leave exactly one lead with that phone.
OneLeadInFlight ==
    (/\ \A p \in Invocations : inFlight[p].pc = "done"
     /\ inFlight[1].message.id # inFlight[2].message.id
     /\ inFlight[1].message.remoteJid = inFlight[2].message.remoteJid)
        => Cardinality({i \in DOMAIN leads :
                           leads[i].phone = PhoneNumberOf(inFlight[1].message.remoteJid)}) = 1

\* C39: the unread count moves with the ledger: a step that ledgers no
\* message, its insert having failed, leaves no conversation with a higher
\* unreadCount than before and creates none with unread messages.
UnreadInStepWithLedger ==
    [][Len(chatMessages') = Len(chatMessages) =>
          \A i \in DOMAIN conversations' :
              conversations'[i].unreadCount
                  <= IF i \in DOMAIN conversations THEN conversations[i].unreadCount ELSE 0]_vars

\* C40: every message of a cloud change is ledgered into the conversation
\* whose contactPhone is the sender of that very message, also when the
\* messages of the change come from different senders.
OwnSendersConversation ==
    [][\A c \in BatchChanges :
          WebhookPost(<<c>>) =>
              \A k \in DOMAIN c.messages :
                  LET row == chatMessages'[Len(chatMessages) + k]
                  IN  /\ row.whatsappMessageId = c.messages[k].id
                      /\ conversations'[row.conversationId].contactPhone = c.messages[k].from]_vars

====
